---- MODULE Spec2Model ----
(***************************************************************************)
(* storekey: order-preserving binary codec.                                *)
(*                                                                         *)
(* The Writer (src/src/writer.rs) and the two readers, Reader and          *)
(* BorrowReader (src/src/reader.rs), are modelled as records of their      *)
(* fields; every method is an operator from the object's state (and the    *)
(* call's arguments) to the state after the call, written branch by branch *)
(* from the method's code.  The byte sink of a Writer is the sequence of   *)
(* bytes written so far; the byte source of a reader is the sequence of    *)
(* bytes not yet consumed.                                                 *)
(*                                                                         *)
(* Spec      a client drives the untyped Writer API, then opens a reader   *)
(*           over the bytes written and drives the reader API.             *)
(* SpecValue a client encodes typed values with the Encode impls of        *)
(*           src/src/encode.rs and decodes them again.                     *)
(***************************************************************************)
EXTENDS Integers, Sequences, FiniteSets, TLC

VARIABLES
    pc,      \* position of the client
    w,       \* the Writer under test: [inner, escape_zero]
    lastw,   \* the logged Writer call: [op, arg, flag, start, end]
    reader,  \* the reader under test: [kind, inner, expect_escaped]
    last,    \* the last reader call: [op, pre, res]
    ty,      \* SpecValue: the type being encoded
    a,       \* SpecValue: the value encoded into w
    b,       \* SpecValue: the value encoded into w2
    w2,      \* SpecValue: a second Writer, for comparing two encodings
    dec,     \* SpecValue: the outcome of the last decode
    twin     \* SpecPair: the BorrowReader run in step with the Reader

vars == <<pc, w, lastw, reader, last, ty, a, b, w2, dec, twin>>

(***************************************************************************)
(* Bounds of the model.                                                    *)
(***************************************************************************)
\* longest byte string / byte array / sequence a client passes in one call
MaxLen == 2

\* the byte values clients of the untyped API use: the terminator, the
\* escape prefix and a byte that is never escaped
ByteVals == {0, 1, 2}

RECURSIVE SeqsUpTo(_, _)
SeqsUpTo(S, n) ==
    IF n = 0 THEN {<<>>}
    ELSE LET shorter == SeqsUpTo(S, n - 1)
         IN  shorter \cup {Append(s, x) : s \in {t \in shorter : Len(t) = n - 1}, x \in S}

Slices == SeqsUpTo(ByteVals, MaxLen)
Arrays == Slices \ {<<>>}

(***************************************************************************)
(* Byte strings.                                                           *)
(***************************************************************************)
\* Ord::cmp on [u8] / Vec<u8>: lexicographic, a proper prefix is Less.
RECURSIVE CmpBytes(_, _)
CmpBytes(x, y) ==
    IF x = <<>> /\ y = <<>> THEN "Equal"
    ELSE IF x = <<>> THEN "Less"
    ELSE IF y = <<>> THEN "Greater"
    ELSE IF Head(x) < Head(y) THEN "Less"
    ELSE IF Head(x) > Head(y) THEN "Greater"
    ELSE CmpBytes(Tail(x), Tail(y))

Drop(s, n) == SubSeq(s, n + 1, Len(s))
Take(s, n) == SubSeq(s, 1, n)

(***************************************************************************)
(* Writer (src/src/writer.rs).                                             *)
(***************************************************************************)
Writer_new == [inner |-> <<>>, escape_zero |-> FALSE]

mark_terminator(wr) == [wr EXCEPT !.escape_zero = TRUE]

\* faulty variant of EscapeByte: `*b < 1`, the escape prefix itself is not escaped
EscapeByte_zero_only(x) == IF x < 1 THEN <<1, x>> ELSE <<x>>

\* the loop body of write_slice: one byte, prefixed by 1 when it is <= 1
EscapeByte(x) == IF x <= 1 THEN <<1, x>> ELSE <<x>>

RECURSIVE EscapeBody(_)
EscapeBody(slice) ==
    IF slice = <<>> THEN <<>>
    ELSE EscapeByte(Head(slice)) \o EscapeBody(Tail(slice))

write_slice(wr, slice) ==
    [inner |-> wr.inner \o EscapeBody(slice) \o <<0>>, escape_zero |-> FALSE]

\* slice: the raw bytes of an EscapedSlice (slice.as_bytes())
write_escaped_slice(wr, slice) ==
    [inner |-> wr.inner \o slice, escape_zero |-> FALSE]

\* faulty variant of write_array: a leading 0x01 at a marked position is
\* not escaped
write_array_zero_only(wr, array) ==
    IF array = <<>> THEN wr
    ELSE IF wr.escape_zero
    THEN [inner |-> wr.inner \o (IF array[1] < 1 THEN <<1>> ELSE <<>>) \o array,
          escape_zero |-> FALSE]
    ELSE [wr EXCEPT !.inner = wr.inner \o array]

write_array(wr, array) ==
    IF Len(array) = 0 THEN wr
    ELSE IF wr.escape_zero
         THEN [inner |-> wr.inner
                           \o (IF array[1] <= 1 THEN <<1>> ELSE <<>>)
                           \o array,
               escape_zero |-> FALSE]
         ELSE [wr EXCEPT !.inner = wr.inner \o array]

write_terminator(wr) == [wr EXCEPT !.inner = wr.inner \o <<0>>]

(***************************************************************************)
(* Results of reader calls.  A call returns Ok(val) or Err(err) and leaves *)
(* the reader in state rd.                                                 *)
(***************************************************************************)
Ok(v, rd) == [ok |-> TRUE, err |-> "", val |-> v, rd |-> rd]
Err(e, rd) == [ok |-> FALSE, err |-> e, val |-> <<>>, rd |-> rd]

(***************************************************************************)
(* Reader over a BufRead (src/src/reader.rs 12-168).  The source is an     *)
(* in-memory byte string; read_exact on a source that ends early consumes  *)
(* what is left and fails with an io::Error, which the `?` operator turns  *)
(* into DecodeError::Io (src/src/lib.rs 145-149).                          *)
(***************************************************************************)
Reader_new(bytes) == [kind |-> "Reader", inner |-> bytes, expect_escaped |-> FALSE]

\* self.inner.read_exact(buf) for a buffer of n bytes
ReadExact(rd, n) ==
    IF Len(rd.inner) >= n
    THEN Ok(Take(rd.inner, n), [rd EXCEPT !.inner = Drop(rd.inner, n)])
    ELSE Err("Io", [rd EXCEPT !.inner = <<>>])

\* faulty variant of Reader::read_terminal: expect_escaped is left as it was
Reader_read_terminal_keep_flag(rd) ==
    IF rd.inner = <<>> THEN Err("UnexpectedEnd", rd)
    ELSE IF rd.inner[1] = 0 THEN Ok(TRUE, [rd EXCEPT !.inner = Tail(rd.inner)])
    ELSE Ok(FALSE, rd)

Reader_read_terminal(rd) ==
    LET r1 == [rd EXCEPT !.expect_escaped = TRUE]
    IN  IF r1.inner = <<>> THEN Err("UnexpectedEnd", r1)
        ELSE IF r1.inner[1] = 0 THEN Ok(TRUE, [r1 EXCEPT !.inner = Tail(r1.inner)])
        ELSE Ok(FALSE, r1)

Reader_read_array(rd, SIZE) ==
    LET plain(r0) == ReadExact(r0, SIZE)
    IN  IF rd.expect_escaped
        THEN LET r1 == [rd EXCEPT !.expect_escaped = FALSE]
                 first == ReadExact(r1, 1)
             IN  IF ~first.ok THEN first
                 ELSE IF first.val[1] # 1
                 THEN LET rest == ReadExact(first.rd, SIZE - 1)
                      IN  IF ~rest.ok THEN rest
                          ELSE Ok(first.val \o rest.val, rest.rd)
                 ELSE plain(first.rd)
        ELSE plain(rd)

\* the loop of read_vec over the bytes `s` the source still holds, with
\* `buffer` the bytes pushed so far; end = TRUE when read_u8 hit the end
RECURSIVE Reader_read_vec_loop(_, _)
Reader_read_vec_loop(s, buffer) ==
    IF s = <<>> THEN [end |-> TRUE, buffer |-> buffer, rest |-> <<>>]
    ELSE IF s[1] = 1
         THEN IF Len(s) < 2 THEN [end |-> TRUE, buffer |-> buffer, rest |-> <<>>]
              ELSE Reader_read_vec_loop(Drop(s, 2), Append(buffer, s[2]))
    ELSE IF s[1] = 0 THEN [end |-> FALSE, buffer |-> buffer, rest |-> Tail(s)]
    ELSE Reader_read_vec_loop(Tail(s), Append(buffer, s[1]))

Reader_read_vec(rd) ==
    LET r1 == [rd EXCEPT !.expect_escaped = FALSE]
        l == Reader_read_vec_loop(r1.inner, <<>>)
    IN  IF l.end THEN Err("UnexpectedEnd", [r1 EXCEPT !.inner = <<>>])
        ELSE Ok(l.buffer, [r1 EXCEPT !.inner = l.rest])

(***************************************************************************)
(* BorrowReader over a slice (src/src/reader.rs 175-409).  A failing call  *)
(* leaves self.inner where the last advance() put it.                      *)
(***************************************************************************)
BorrowReader_new(slice) ==
    [kind |-> "BorrowReader", inner |-> slice, expect_escaped |-> FALSE]

advance(rd, s) == [rd EXCEPT !.inner = Drop(rd.inner, s)]

\* faulty variant of BorrowReader::read_terminal: the byte looked at is
\* consumed whatever it is
BorrowReader_read_terminal_consume_any(rd) ==
    LET r1 == [rd EXCEPT !.expect_escaped = TRUE]
    IN  IF r1.inner = <<>> THEN Err("UnexpectedEnd", r1)
        ELSE Ok(r1.inner[1] = 0, advance(r1, 1))

BorrowReader_read_terminal(rd) ==
    LET r1 == [rd EXCEPT !.expect_escaped = TRUE]
    IN  IF r1.inner = <<>> THEN Err("UnexpectedEnd", r1)
        ELSE IF r1.inner[1] = 0 THEN Ok(TRUE, advance(r1, 1))
        ELSE Ok(FALSE, r1)

\* faulty variant of BorrowReader::read_array: an escape prefix is consumed
\* whether or not one is expected
BorrowReader_read_array_always_escaped(rd, SIZE) ==
    LET r1 == [rd EXCEPT !.expect_escaped = FALSE]
    IN  IF r1.inner /= <<>> /\ r1.inner[1] = 1
        THEN (IF Len(r1.inner) < SIZE + 1 THEN Err("UnexpectedEnd", r1)
              ELSE Ok(Take(Drop(r1.inner, 1), SIZE), advance(r1, SIZE + 1)))
        ELSE (IF Len(r1.inner) < SIZE THEN Err("UnexpectedEnd", r1)
              ELSE Ok(Take(r1.inner, SIZE), advance(r1, SIZE)))

BorrowReader_read_array(rd, SIZE) ==
    LET body(r0) ==
            IF Len(r0.inner) < SIZE THEN Err("UnexpectedEnd", r0)
            ELSE Ok(Take(r0.inner, SIZE), advance(r0, SIZE))
    IN  IF rd.expect_escaped
        THEN LET r1 == [rd EXCEPT !.expect_escaped = FALSE]
             IN  IF r1.inner = <<>> THEN Err("UnexpectedEnd", r1)
                 ELSE IF r1.inner[1] = 1 THEN body(advance(r1, 1))
                 ELSE body(r1)
        ELSE body(rd)

\* the loop of read_into_vec over `iter`, the bytes of self.inner not yet
\* iterated; end = TRUE when iter.next() returned None
RECURSIVE read_into_vec_loop(_, _)
read_into_vec_loop(iter, buffer) ==
    IF iter = <<>> THEN [end |-> TRUE, buffer |-> buffer, rest |-> <<>>]
    ELSE IF iter[1] = 1
         THEN IF Len(iter) < 2 THEN [end |-> TRUE, buffer |-> buffer, rest |-> <<>>]
              ELSE read_into_vec_loop(Drop(iter, 2), Append(buffer, iter[2]))
    ELSE IF iter[1] = 0 THEN [end |-> FALSE, buffer |-> buffer, rest |-> Tail(iter)]
    ELSE read_into_vec_loop(Tail(iter), Append(buffer, iter[1]))

\* read_into_vec(&mut buffer): on failure self.inner is not reassigned
read_into_vec(rd, buffer) ==
    LET r1 == [rd EXCEPT !.expect_escaped = FALSE]
        l == read_into_vec_loop(r1.inner, buffer)
    IN  IF l.end THEN Err("UnexpectedEnd", r1)
        ELSE Ok(l.buffer, [r1 EXCEPT !.inner = l.rest])

BorrowReader_read_vec(rd) ==
    read_into_vec([rd EXCEPT !.expect_escaped = FALSE], <<>>)

\* Cow<[u8]>: Borrowed(slice of the input) or Owned(buffer)
Cow(borrowed, bytes) == [borrowed |-> borrowed, bytes |-> bytes]

\* the `for i in 0..` loop of read_cow, at index i (0-based)
RECURSIVE ReadCowAt(_, _)
ReadCowAt(rd, i) ==
    IF i >= Len(rd.inner) THEN Err("UnexpectedEnd", rd)
    ELSE IF rd.inner[i + 1] = 0
         THEN Ok(Cow(TRUE, Take(rd.inner, i)), advance(rd, i + 1))
    ELSE IF rd.inner[i + 1] = 1
         THEN IF i + 1 >= Len(rd.inner) THEN Err("UnexpectedEnd", rd)
              ELSE LET buffer == Append(Take(rd.inner, i), rd.inner[i + 2])
                       res == read_into_vec(advance(rd, i + 2), buffer)
                   IN  IF ~res.ok THEN res
                       ELSE Ok(Cow(FALSE, res.val), res.rd)
    ELSE ReadCowAt(rd, i + 1)

\* faulty variant of read_cow: it always copies into a fresh buffer
read_cow_always_owned(rd) ==
    LET res == BorrowReader_read_vec(rd)
    IN  IF res.ok THEN Ok(Cow(FALSE, res.val), res.rd) ELSE res

read_cow(rd) == ReadCowAt([rd EXCEPT !.expect_escaped = FALSE], 0)

\* Reader::expect_escaped / BorrowReader::expect_escaped
expect_escaped(rd) == [rd EXCEPT !.expect_escaped = TRUE]

(***************************************************************************)
(* Fixed-width primitives (src/src/writer.rs 19-32, 98-120;                *)
(* src/src/reader.rs 17-30, 145-167, 386-408).  An integer is a TLA+       *)
(* integer in the range of its type; to_be_bytes gives the big-endian      *)
(* bytes of its two's-complement representation.  A float is its bit       *)
(* pattern, to_bits(), held as big-endian bytes; the bit operations of     *)
(* write_f32 / write_f64 are carried out on those bytes.                   *)
(***************************************************************************)
IntKinds == {"u8", "i8", "u16", "i16", "u32", "i32"}
FloatKinds == {"f32", "f64"}

\* size_of::<T>()
Width(kind) ==
    CASE kind \in {"u8", "i8"} -> 1
      [] kind \in {"u16", "i16"} -> 2
      [] kind \in {"u32", "i32", "f32"} -> 4
      [] kind = "f64" -> 8

Signed(kind) == kind \in {"i8", "i16", "i32"}

\* $ty::MIN of a signed type of N bytes: -(2^(8N-1)) = -128 * 256^(N-1)
IntMin(N) == (-128) * (256 ^ (N - 1))
\* $ty::MAX of a signed type of N bytes
IntMax(N) == (127 * (256 ^ (N - 1))) + ((256 ^ (N - 1)) - 1)

\* v.to_be_bytes() for a type of N bytes
RECURSIVE to_be_bytes(_, _)
to_be_bytes(v, N) ==
    IF N = 0 THEN <<>>
    ELSE Append(to_be_bytes(v \div 256, N - 1), (v % 256))

\* $ty::from_be_bytes for an unsigned type
RECURSIVE from_be_bytes_unsigned(_)
from_be_bytes_unsigned(bytes) ==
    IF bytes = <<>> THEN 0
    ELSE (from_be_bytes_unsigned(Take(bytes, Len(bytes) - 1)) * 256) + bytes[Len(bytes)]

\* $ty::from_be_bytes for a signed type: the top bit is the sign
from_be_bytes_signed(bytes) ==
    IF bytes[1] >= 128
    THEN from_be_bytes_unsigned(<<bytes[1] - 128>> \o Tail(bytes))
         + IntMin(Len(bytes))
    ELSE from_be_bytes_unsigned(bytes)

\* x ^ y and x | y on one byte
RECURSIVE BitXor(_, _)
BitXor(x, y) ==
    IF x = 0 /\ y = 0 THEN 0
    ELSE ((x + y) % 2) + 2 * BitXor(x \div 2, y \div 2)

RECURSIVE BitOr(_, _)
BitOr(x, y) ==
    IF x = 0 /\ y = 0 THEN 0
    ELSE (IF x % 2 = 1 \/ y % 2 = 1 THEN 1 ELSE 0) + 2 * BitOr(x \div 2, y \div 2)

\* x ^ y and x | y on the bytes of two values of the same width
XorBytes(x, y) == [i \in 1..Len(x) |-> BitXor(x[i], y[i])]
OrBytes(x, y) == [i \in 1..Len(x) |-> BitOr(x[i], y[i])]

\* x ^ y on two signed integers of N bytes
IntXor(x, y, N) == from_be_bytes_signed(XorBytes(to_be_bytes(x, N), to_be_bytes(y, N)))

\* v >> (8N - 1), arithmetic, on the bytes of a signed value: the sign bit
\* fills every bit
SignFill(bytes) == [i \in 1..Len(bytes) |-> IF bytes[1] >= 128 THEN 255 ELSE 0]

\* the bytes of iN::MIN for N bytes: the sign bit alone
MinBytes(N) == [i \in 1..N |-> IF i = 1 THEN 128 ELSE 0]

\* faulty variant of write_int: signed values are written without the sign flip
write_int_no_flip(wr, kind, v) == write_array(wr, to_be_bytes(v, Width(kind)))

\* impl_prims!: write_u8 .. write_i32
write_int(wr, kind, v) ==
    IF Signed(kind)
    THEN write_array(wr, to_be_bytes(IntXor(v, IntMin(Width(kind)), Width(kind)), Width(kind)))
    ELSE write_array(wr, to_be_bytes(v, Width(kind)))

\* faulty variant of write_float: the sign bit is flipped and nothing else
write_float_sign_only(wr, kind, v) ==
    write_array(wr, XorBytes(v, MinBytes(Width(kind))))

\* write_f32 / write_f64: v is the bit pattern; t = (v >> 31) | i32::MIN
write_float(wr, kind, v) ==
    LET t == OrBytes(SignFill(v), MinBytes(Width(kind)))
    IN  write_array(wr, XorBytes(v, t))

\* self.read_array::<N>() of a reader of either kind
read_array(rd, SIZE) ==
    IF rd.kind = "Reader" THEN Reader_read_array(rd, SIZE)
    ELSE BorrowReader_read_array(rd, SIZE)

\* impl_prims!: read_u8 .. read_i32
read_int(rd, kind) ==
    LET res == read_array(rd, Width(kind))
    IN  IF ~res.ok THEN res
        ELSE IF Signed(kind)
        THEN Ok(IntXor(from_be_bytes_signed(res.val), IntMin(Width(kind)), Width(kind)), res.rd)
        ELSE Ok(from_be_bytes_unsigned(res.val), res.rd)

\* read_f32 / read_f64: t = ((v ^ i32::MIN) >> 31) | i32::MIN
read_float(rd, kind) ==
    LET res == read_array(rd, Width(kind))
        min == MinBytes(Width(kind))
    IN  IF ~res.ok THEN res
        ELSE Ok(XorBytes(res.val, OrBytes(SignFill(XorBytes(res.val, min)), min)), res.rd)

(***************************************************************************)
(* Typed values.  A type is named by its Rust name; Kind, Elem, Fields,    *)
(* KeyOf and ValOf give its shape.  A String or str is its UTF-8 bytes, a  *)
(* Vec<T> the sequence of its elements, a tuple the sequence of its        *)
(* fields, a BTreeMap<K, V> the sequence of its <<key, value>> entries in  *)
(* ascending key order (the order BTreeMap::iter yields them).             *)
(***************************************************************************)
VecTypes == {"Vec<u8>", "Vec<u16>", "Vec<u32>", "Vec<i32>", "Vec<String>", "Vec<Vec<u8>>"}
MapTypes == {"BTreeMap<String, u8>", "BTreeMap<u8, u8>"}
\* the tuples of strings and fixed-width integers
StrTupleTypes == {"(String, u8)", "(String, String)", "(u8, String)"}
TupleTypes == {"(Vec<u8>, u8)", "(Vec<u8>, u16)"} \cup StrTupleTypes

\* the types encoded as a discriminant byte and, for some variants, a
\* payload.  A bool is TRUE or FALSE, a value of the others is the tuple of
\* its variant's name and, if it has one, its payload.
TagTypes == {"bool", "Option<u8>", "Result<u8, u16>", "Bound<u8>"}

Types ==
    IntKinds \cup FloatKinds \cup {"String"} \cup VecTypes \cup MapTypes \cup TupleTypes
    \cup TagTypes

Kind(t) ==
    CASE t \in IntKinds -> "int"
      [] t \in FloatKinds -> "float"
      [] t = "String" -> "str"
      [] t \in VecTypes -> "vec"
      [] t \in MapTypes -> "map"
      [] t \in TupleTypes -> "tuple"
      [] t \in TagTypes -> "tag"

Elem(t) ==
    CASE t = "Vec<u8>" -> "u8"
      [] t = "Vec<u16>" -> "u16"
      [] t = "Vec<u32>" -> "u32"
      [] t = "Vec<i32>" -> "i32"
      [] t = "Vec<String>" -> "String"
      [] t = "Vec<Vec<u8>>" -> "Vec<u8>"

KeyOf(t) ==
    CASE t = "BTreeMap<String, u8>" -> "String"
      [] t = "BTreeMap<u8, u8>" -> "u8"

ValOf(t) ==
    CASE t = "BTreeMap<String, u8>" -> "u8"
      [] t = "BTreeMap<u8, u8>" -> "u8"

\* the type of the payload of a variant
Payload(t, variant) ==
    CASE t = "Option<u8>" -> "u8"
      [] t = "Result<u8, u16>" -> (IF variant = "Ok" THEN "u8" ELSE "u16")
      [] t = "Bound<u8>" -> "u8"

Fields(t) ==
    CASE t = "(Vec<u8>, u8)" -> <<"Vec<u8>", "u8">>
      [] t = "(Vec<u8>, u16)" -> <<"Vec<u8>", "u16">>
      [] t = "(String, u8)" -> <<"String", "u8">>
      [] t = "(String, String)" -> <<"String", "String">>
      [] t = "(u8, String)" -> <<"u8", "String">>

\* the values of each integer type the model draws: the ends of the range,
\* the values around zero, and values whose first byte is 0x00, 0x01, 0x02
IntVals(kind) ==
    CASE kind = "u8" -> {0, 1, 2, 3, 127, 128, 254, 255}
      [] kind = "i8" -> {-128, -127, -126, -2, -1, 0, 1, 126, 127}
      [] kind = "u16" -> {0, 1, 255, 256, 257, 511, 512, 32767, 32768, 65535}
      [] kind = "i16" -> {-32768, -32767, -32513, -32512, -32256, -1, 0, 1, 255, 256, 32767}
      [] kind = "u32" -> {0, 1, 255, 256, 16777215, 16777216, 33554432, 2147483647}
      [] kind = "i32" -> {IntMin(4), IntMin(4) + 1, -2130706432, -1, 0, 1, 16777216, IntMax(4)}

\* the float bit patterns the model draws (to_bits(), big-endian)
FloatVals(kind) ==
    CASE kind = "f32" ->
           { <<0, 0, 0, 0>>,          \* 0.0
             <<128, 0, 0, 0>>,        \* -0.0
             <<0, 0, 0, 1>>,          \* smallest subnormal
             <<0, 128, 0, 0>>,        \* MIN_POSITIVE
             <<63, 128, 0, 0>>,       \* 1.0
             <<191, 128, 0, 0>>,      \* -1.0
             <<127, 127, 255, 255>>,  \* MAX
             <<255, 127, 255, 255>>,  \* MIN
             <<254, 128, 0, 0>>,      \* a negative value encoded with first byte 0x01
             <<65, 32, 0, 0>>,        \* 10.0
             <<193, 32, 0, 0>>,       \* -10.0
             <<128, 128, 0, 0>>,      \* -MIN_POSITIVE
             <<127, 128, 0, 1>>,      \* NaN with the smallest payload
             <<127, 128, 0, 0>>,      \* +inf
             <<255, 128, 0, 0>>,      \* -inf
             <<127, 192, 0, 0>>,      \* NaN
             <<255, 192, 0, 0>> }     \* NaN with the sign bit set
      [] kind = "f64" ->
           { <<0, 0, 0, 0, 0, 0, 0, 0>>,
             <<128, 0, 0, 0, 0, 0, 0, 0>>,
             <<0, 0, 0, 0, 0, 0, 0, 1>>,
             <<63, 240, 0, 0, 0, 0, 0, 0>>,
             <<191, 240, 0, 0, 0, 0, 0, 0>>,
             <<127, 239, 255, 255, 255, 255, 255, 255>>,
             <<255, 239, 255, 255, 255, 255, 255, 255>>,
             <<254, 240, 0, 0, 0, 0, 0, 0>>,
             <<64, 36, 0, 0, 0, 0, 0, 0>>,
             <<192, 36, 0, 0, 0, 0, 0, 0>>,
             <<0, 16, 0, 0, 0, 0, 0, 0>>,
             <<128, 16, 0, 0, 0, 0, 0, 0>>,
             <<127, 240, 0, 0, 0, 0, 0, 0>>,
             <<255, 240, 0, 0, 0, 0, 0, 0>>,
             <<127, 248, 0, 0, 0, 0, 0, 0>>,
             <<255, 248, 0, 0, 0, 0, 0, 0>> }

\* the bytes of the strings the model draws (ASCII, so every string is
\* valid UTF-8), and the elements of the sequences it draws
StrBytes == {0, 1, 2, 97}
ElemVals(t) ==
    CASE t = "u8" -> {0, 1, 2, 255}
      [] t = "u16" -> {0, 256, 257, 65535}
      [] t = "u32" -> {0, 16843009, 2147483647}
      [] t = "i32" -> {IntMin(4), -2130706432, -1, 0}
      [] t = "String" -> {<<>>, <<0>>, <<97>>}
      [] t = "Vec<u8>" -> {<<>>, <<0>>, <<2>>}

\* the maps with at most n entries, keys from `keys` (a sequence in
\* ascending order), values from vals
RECURSIVE MapsUpTo(_, _, _)
MapsUpTo(keys, vals, n) ==
    IF keys = <<>> \/ n = 0 THEN {<<>>}
    ELSE MapsUpTo(Tail(keys), vals, n)
         \cup {<<<<Head(keys), v>>>> \o m : v \in vals, m \in MapsUpTo(Tail(keys), vals, n - 1)}

\* the values of a field of a tuple of strings and integers: the strings
\* of up to two bytes with and without bytes that are escaped, so that one
\* is a proper prefix of another
TupleFieldVals(t) ==
    IF t = "String" THEN SeqsUpTo({0, 1, 97}, 2) ELSE ElemVals(t)

Vals(t) ==
    CASE Kind(t) = "int" -> IntVals(t)
      [] Kind(t) = "float" -> FloatVals(t)
      [] Kind(t) = "str" -> SeqsUpTo(StrBytes, MaxLen)
      [] Kind(t) = "vec" -> SeqsUpTo(ElemVals(Elem(t)), MaxLen)
      [] t = "BTreeMap<String, u8>" -> MapsUpTo(<<<<>>, <<0>>, <<97>>>>, {0, 1, 2}, MaxLen)
      [] t = "BTreeMap<u8, u8>" -> MapsUpTo(<<0, 1, 2>>, {0, 1, 255}, MaxLen)
      [] t = "bool" -> {FALSE, TRUE}
      [] t = "Option<u8>" -> {<<"None">>} \cup {<<"Some", x>> : x \in IntVals("u8")}
      [] t = "Result<u8, u16>" ->
           {<<"Ok", x>> : x \in IntVals("u8")} \cup {<<"Err", e>> : e \in IntVals("u16")}
      [] t = "Bound<u8>" ->
           {<<"Unbounded">>} \cup {<<"Included", x>> : x \in IntVals("u8")}
           \cup {<<"Excluded", x>> : x \in IntVals("u8")}
      [] t \in StrTupleTypes ->
           {<<x, y>> : x \in TupleFieldVals(Fields(t)[1]),
                       y \in TupleFieldVals(Fields(t)[2])}
      [] Kind(t) = "tuple" ->
           {<<x, y>> : x \in SeqsUpTo(ElemVals("u8"), MaxLen), y \in ElemVals(Fields(t)[2])}

(***************************************************************************)
(* Encode impls (src/src/encode.rs).                                       *)
(***************************************************************************)
\* faulty variant of the discriminants: counted from 0x00
Discriminant_from_zero(t, v) ==
    IF t = "bool" THEN (IF v THEN 1 ELSE 0)
    ELSE CASE v[1] \in {"None", "Ok", "Unbounded"} -> 0
           [] v[1] \in {"Some", "Err", "Included"} -> 1
           [] v[1] = "Excluded" -> 2

\* the byte handed to write_u8 by the Encode impls of bool, Option, Result
\* and Bound
Discriminant(t, v) ==
    IF t = "bool" THEN (IF v THEN 3 ELSE 2)
    ELSE CASE v[1] \in {"None", "Ok", "Unbounded"} -> 2
           [] v[1] \in {"Some", "Err", "Included"} -> 3
           [] v[1] = "Excluded" -> 4

RECURSIVE Encode(_, _, _), EncodeElems(_, _, _), EncodeEntries(_, _, _), EncodeFields(_, _, _)

\* T::encode(v, w)
Encode(t, v, wr) ==
    CASE Kind(t) = "int" -> write_int(wr, t, v)
      [] Kind(t) = "float" -> write_float(wr, t, v)
      [] Kind(t) = "str" -> write_slice(wr, v)
      [] Kind(t) = "vec" -> write_terminator(EncodeElems(Elem(t), v, wr))
      [] Kind(t) = "map" -> write_terminator(EncodeEntries(t, v, wr))
      [] Kind(t) = "tuple" -> EncodeFields(Fields(t), v, wr)
      [] Kind(t) = "tag" ->
           LET tagged == write_int(wr, "u8", Discriminant(t, v))
           IN  IF t = "bool" \/ Len(v) = 1 THEN tagged
               ELSE Encode(Payload(t, v[1]), v[2], tagged)

\* faulty variant of the loop over the elements: no terminator is marked
RECURSIVE EncodeElems_no_mark(_, _, _)
EncodeElems_no_mark(te, vs, wr) ==
    IF vs = <<>> THEN wr
    ELSE EncodeElems_no_mark(te, Tail(vs), Encode(te, Head(vs), wr))

\* for e in self.iter() { w.mark_terminator(); e.encode(w)?; }
EncodeElems(te, vs, wr) ==
    IF vs = <<>> THEN wr
    ELSE EncodeElems(te, Tail(vs), Encode(te, Head(vs), mark_terminator(wr)))

\* faulty variant of the loop over the entries: the value is written before
\* its key
RECURSIVE EncodeEntries_value_first(_, _, _)
EncodeEntries_value_first(t, kvs, wr) ==
    IF kvs = <<>> THEN wr
    ELSE EncodeEntries_value_first(t, Tail(kvs),
             Encode(KeyOf(t), Head(kvs)[1],
                 Encode(ValOf(t), Head(kvs)[2], mark_terminator(wr))))

\* for (k, v) in self.iter() { w.mark_terminator(); k.encode(w)?; v.encode(w)?; }
EncodeEntries(t, kvs, wr) ==
    IF kvs = <<>> THEN wr
    ELSE EncodeEntries(t, Tail(kvs),
             Encode(ValOf(t), Head(kvs)[2],
                 Encode(KeyOf(t), Head(kvs)[1], mark_terminator(wr))))

\* faulty variant of the tuple encoder: the fields are written last to first
RECURSIVE EncodeFields_last_first(_, _, _)
EncodeFields_last_first(ts, vs, wr) ==
    IF ts = <<>> THEN wr
    ELSE Encode(Head(ts), Head(vs), EncodeFields_last_first(Tail(ts), Tail(vs), wr))

\* $( $t.encode(_w)?; )*
EncodeFields(ts, vs, wr) ==
    IF ts = <<>> THEN wr
    ELSE EncodeFields(Tail(ts), Tail(vs), Encode(Head(ts), Head(vs), wr))

\* encode_vec(&v)
encode_vec(t, v) == Encode(t, v, Writer_new).inner

(***************************************************************************)
(* Rust's Ord on the modelled types: integers by value, strings by their   *)
(* bytes, sequences, tuples and maps lexicographically.                    *)
(***************************************************************************)
RECURSIVE CmpVal(_, _, _), CmpSeq(_, _, _), CmpFields(_, _, _)

CmpVal(t, x, y) ==
    CASE Kind(t) = "int" -> IF x < y THEN "Less" ELSE IF x = y THEN "Equal" ELSE "Greater"
      [] Kind(t) = "str" -> CmpBytes(x, y)
      [] Kind(t) = "vec" -> CmpSeq(<<Elem(t)>>, x, y)
      [] Kind(t) = "map" -> CmpSeq(<<KeyOf(t), ValOf(t)>>, x, y)
      [] Kind(t) = "tuple" -> CmpFields(Fields(t), x, y)

\* two sequences whose elements are records with fields of types ts (one
\* type: the elements themselves)
CmpSeq(ts, x, y) ==
    IF x = <<>> THEN (IF y = <<>> THEN "Equal" ELSE "Less")
    ELSE IF y = <<>> THEN "Greater"
    ELSE LET c == IF Len(ts) = 1 THEN CmpVal(ts[1], Head(x), Head(y))
                  ELSE CmpFields(ts, Head(x), Head(y))
         IN  IF c /= "Equal" THEN c ELSE CmpSeq(ts, Tail(x), Tail(y))

CmpFields(ts, x, y) ==
    IF ts = <<>> THEN "Equal"
    ELSE LET c == CmpVal(Head(ts), Head(x), Head(y))
         IN  IF c /= "Equal" THEN c ELSE CmpFields(Tail(ts), Tail(x), Tail(y))

(***************************************************************************)
(* IEEE-754 comparison of two float bit patterns of one width, as          *)
(* f32::partial_cmp / f64::partial_cmp and f32::total_cmp compute it.      *)
(***************************************************************************)
\* the sign bit
SignBit(v) == v[1] >= 128

\* the bit pattern with the sign bit cleared
Magnitude(v) == [i \in 1..Len(v) |-> IF i = 1 THEN v[1] % 128 ELSE v[i]]

\* +inf of the width of v: exponent all ones, mantissa zero
Infinity(v) ==
    [i \in 1..Len(v) |-> IF i = 1 THEN 127
                          ELSE IF i = 2 THEN (IF Len(v) = 4 THEN 128 ELSE 240)
                          ELSE 0]

\* -inf of the width of v
NegInfinity(v) == [i \in 1..Len(v) |-> IF i = 1 THEN 255 ELSE Infinity(v)[i]]

\* v.is_nan(): the magnitude is above that of infinity
is_nan(v) == CmpBytes(Magnitude(v), Infinity(v)) = "Greater"

\* v == 0.0 (either zero)
IsZero(v) == \A i \in 1..Len(v) : Magnitude(v)[i] = 0

Reverse(c) == IF c = "Less" THEN "Greater" ELSE IF c = "Greater" THEN "Less" ELSE c

\* x.total_cmp(&y): sign first, then the magnitude, reversed for negatives
total_cmp(x, y) ==
    IF SignBit(x) /= SignBit(y) THEN (IF SignBit(x) THEN "Less" ELSE "Greater")
    ELSE IF SignBit(x) THEN Reverse(CmpBytes(Magnitude(x), Magnitude(y)))
    ELSE CmpBytes(Magnitude(x), Magnitude(y))

\* x.partial_cmp(&y): None for a NaN, the two zeros equal
partial_cmp(x, y) ==
    IF is_nan(x) \/ is_nan(y) THEN "None"
    ELSE IF IsZero(x) /\ IsZero(y) THEN "Equal"
    ELSE total_cmp(x, y)

(***************************************************************************)
(* Decode / BorrowDecode impls.  One operator serves both readers: every   *)
(* call goes to the method of the reader's own kind.                       *)
(***************************************************************************)
read_terminal(rd) ==
    IF rd.kind = "Reader" THEN Reader_read_terminal(rd)
    ELSE BorrowReader_read_terminal(rd)

read_vec(rd) ==
    IF rd.kind = "Reader" THEN Reader_read_vec(rd)
    ELSE BorrowReader_read_vec(rd)

\* number of continuation bytes (0x80..=0xBF) s starts with, up to n
RECURSIVE Continuations(_, _)
Continuations(s, n) ==
    IF n = 0 \/ s = <<>> \/ s[1] < 128 \/ s[1] > 191 THEN 0
    ELSE 1 + Continuations(Tail(s), n - 1)

\* String::from_utf8(bytes).is_ok()
RECURSIVE from_utf8_ok(_)
from_utf8_ok(s) ==
    IF s = <<>> THEN TRUE
    ELSE LET x == s[1]
             n == IF x < 128 THEN 0
                  ELSE IF x >= 194 /\ x <= 223 THEN 1
                  ELSE IF x >= 224 /\ x <= 239 THEN 2
                  ELSE IF x >= 240 /\ x <= 244 THEN 3
                  ELSE 4
         IN  /\ n < 4
             /\ Continuations(Tail(s), n) = n
             /\ (x = 224 => s[2] >= 160)
             /\ (x = 237 => s[2] <= 159)
             /\ (x = 240 => s[2] >= 144)
             /\ (x = 244 => s[2] <= 143)
             /\ from_utf8_ok(Drop(s, n + 1))

\* Reader::read_string / BorrowReader::read_string
read_string(rd) ==
    LET res == read_vec(rd)
    IN  IF ~res.ok THEN res
        ELSE IF from_utf8_ok(res.val) THEN res
        ELSE Err("Utf8", res.rd)

\* BorrowReader::read_str_cow
read_str_cow(rd) ==
    LET res == read_cow(rd)
    IN  IF ~res.ok THEN res
        ELSE IF from_utf8_ok(res.val.bytes) THEN res
        ELSE Err("Utf8", res.rd)

(***************************************************************************)
(* Escaped views (src/src/types.rs).  An EscapedSlice or EscapedStr is its *)
(* raw bytes: the escaped form with the terminator.                        *)
(***************************************************************************)
\* faulty variant of the loop: an escape prefix is stepped over like any
\* other byte, so an escaped 0x00 is taken for the terminator
RECURSIVE ScanEscaped_no_skip(_, _)
ScanEscaped_no_skip(inner, i) ==
    IF i >= Len(inner) THEN -1
    ELSE IF inner[i + 1] = 0 THEN i
    ELSE ScanEscaped_no_skip(inner, i + 1)

\* the loop of read_escaped_slice over inner, from index i (0-based): the
\* index of the terminator it stops at, or -1 when inner.get(i) is None
RECURSIVE ScanEscaped(_, _)
ScanEscaped(inner, i) ==
    IF i >= Len(inner) THEN -1
    ELSE IF inner[i + 1] = 0 THEN i
    ELSE IF inner[i + 1] = 1 THEN ScanEscaped(inner, i + 2)
    ELSE ScanEscaped(inner, i + 1)

\* BorrowReader::read_escaped_slice
read_escaped_slice(rd) ==
    LET r1 == [rd EXCEPT !.expect_escaped = FALSE]
        i == ScanEscaped(r1.inner, 0)
    IN  IF i < 0 THEN Err("UnexpectedEnd", r1)
        ELSE Ok(Take(r1.inner, i + 1), advance(r1, i + 1))

\* BorrowReader::read_escaped_str
read_escaped_str(rd) ==
    LET res == read_escaped_slice(rd)
    IN  IF ~res.ok THEN res
        ELSE IF from_utf8_ok(res.val) THEN res
        ELSE Err("UnexpectedEnd", res.rd)

\* faulty variant of the iterator: the byte behind an escape prefix is
\* dropped with the prefix
RECURSIVE EscapedIter_drop_escaped(_)
EscapedIter_drop_escaped(s) ==
    IF s = <<>> THEN <<>>
    ELSE IF s[1] = 1 THEN EscapedIter_drop_escaped(Drop(s, 2))
    ELSE <<s[1]>> \o EscapedIter_drop_escaped(Tail(s))

\* the items EscapedIter yields over the bytes s: EscapedIter::next until None
RECURSIVE EscapedIter(_)
EscapedIter(s) ==
    IF s = <<>> THEN <<>>
    ELSE IF s[1] = 1
         THEN (IF Len(s) < 2 THEN <<>> ELSE <<s[2]>> \o EscapedIter(Drop(s, 2)))
    ELSE <<s[1]>> \o EscapedIter(Tail(s))

\* EscapedSlice::iter().collect(): the raw bytes without the last, unescaped
EscapedSlice_iter(raw) == EscapedIter(Take(raw, Len(raw) - 1))

\* the loop of <EscapedSlice as PartialEq<[u8]>>::eq and of
\* <EscapedStr as PartialEq<str>>::eq over the items of the two iterators
RECURSIVE EqLoop(_, _)
EqLoop(items, other) ==
    IF items = <<>> THEN other = <<>>
    ELSE IF other = <<>> THEN FALSE
    ELSE IF items[1] /= other[1] THEN FALSE
    ELSE EqLoop(Tail(items), Tail(other))

\* <EscapedSlice as PartialEq<[u8]>>::eq
EscapedSlice_eq_bytes(raw, other) == EqLoop(EscapedSlice_iter(raw), other)

\* str::chars over valid UTF-8: each char is the tuple of its bytes
RECURSIVE chars(_)
chars(s) ==
    IF s = <<>> THEN <<>>
    ELSE LET n == IF s[1] < 128 THEN 1
                  ELSE IF s[1] <= 223 THEN 2
                  ELSE IF s[1] <= 239 THEN 3
                  ELSE 4
         IN  <<Take(s, n)>> \o chars(Drop(s, n))

\* the items EscapedChars yields over the chars cs: EscapedChars::next until
\* None
RECURSIVE EscapedChars(_)
EscapedChars(cs) ==
    IF cs = <<>> THEN <<>>
    ELSE IF cs[1] = <<1>>
         THEN (IF Len(cs) < 2 THEN <<>> ELSE <<cs[2]>> \o EscapedChars(Drop(cs, 2)))
    ELSE <<cs[1]>> \o EscapedChars(Tail(cs))

\* EscapedStr::chars().collect()
EscapedStr_chars(raw) == EscapedChars(chars(Take(raw, Len(raw) - 1)))

\* <EscapedStr as PartialEq<str>>::eq
EscapedStr_eq_str(raw, other) == EqLoop(EscapedStr_chars(raw), chars(other))

\* <EscapedSlice as PartialEq>::eq and <EscapedStr as PartialEq>::eq:
\* self.0 == other.0
EscapedSlice_eq(raw, other) == raw = other

\* BTreeMap::insert(k, v) on a map kept as its entries in key order
RECURSIVE MapInsert(_, _, _, _)
MapInsert(tk, m, k, v) ==
    IF m = <<>> THEN <<<<k, v>>>>
    ELSE LET c == CmpVal(tk, k, Head(m)[1])
         IN  IF c = "Less" THEN <<<<k, v>>>> \o m
             ELSE IF c = "Equal" THEN <<<<k, v>>>> \o Tail(m)
             ELSE <<Head(m)>> \o MapInsert(tk, Tail(m), k, v)

\* the reader method that reads a value of a primitive or string type:
\* r.read_u8() .. r.read_i32(), r.read_f32(), r.read_f64(), r.read_string()
ReadValue(t, rd) ==
    CASE Kind(t) = "int" -> read_int(rd, t)
      [] Kind(t) = "float" -> read_float(rd, t)
      [] Kind(t) = "str" -> read_string(rd)

RECURSIVE Decode(_, _), DecodeElems(_, _, _), DecodeEntries(_, _, _), DecodeFields(_, _, _)

\* T::decode(r) / T::borrow_decode(r): a primitive or a string by the
\* reader's method for it, a composite by the mirror image of its Encode impl
Decode(t, rd) ==
    CASE Kind(t) \in {"int", "float", "str"} -> ReadValue(t, rd)
      [] Kind(t) = "vec" -> DecodeElems(Elem(t), rd, <<>>)
      [] Kind(t) = "map" -> DecodeEntries(t, rd, <<>>)
      [] Kind(t) = "tuple" -> DecodeFields(Fields(t), rd, <<>>)

\* while !r.read_terminal()? { res.push(Decode::decode(r)?); }
DecodeElems(te, rd, res) ==
    LET term == read_terminal(rd)
    IN  IF ~term.ok THEN term
        ELSE IF term.val THEN Ok(res, term.rd)
        ELSE LET e == Decode(te, term.rd)
             IN  IF ~e.ok THEN e
                 ELSE DecodeElems(te, e.rd, Append(res, e.val))

\* while !r.read_terminal()? { let k = decode(r)?; let v = decode(r)?; res.insert(k, v); }
DecodeEntries(t, rd, res) ==
    LET term == read_terminal(rd)
    IN  IF ~term.ok THEN term
        ELSE IF term.val THEN Ok(res, term.rd)
        ELSE LET k == Decode(KeyOf(t), term.rd)
             IN  IF ~k.ok THEN k
                 ELSE LET v == Decode(ValOf(t), k.rd)
                      IN  IF ~v.ok THEN v
                          ELSE DecodeEntries(t, v.rd, MapInsert(KeyOf(t), res, k.val, v.val))

\* Ok(( $($t::decode(r)?,)* ))
DecodeFields(ts, rd, res) ==
    IF ts = <<>> THEN Ok(res, rd)
    ELSE LET f == Decode(Head(ts), rd)
         IN  IF ~f.ok THEN f
             ELSE DecodeFields(Tail(ts), f.rd, Append(res, f.val))

\* Reader::is_empty / BorrowReader::is_empty
is_empty(rd) == rd.inner = <<>>

\* faulty variant of the check: whatever the root decoder returned
NotChecked(res) == res

\* the check of decode / decode_borrow after the root value is decoded
FullyConsumed(res) ==
    IF ~res.ok THEN res
    ELSE IF ~is_empty(res.rd) THEN Err("BytesRemaining", res.rd)
    ELSE res

\* storekey::decode::<_, T>(bytes)
decode(t, bytes) == FullyConsumed(Decode(t, Reader_new(bytes)))

\* storekey::decode_borrow::<T>(bytes)
decode_borrow(t, bytes) == FullyConsumed(Decode(t, BorrowReader_new(bytes)))

(***************************************************************************)
(* Derive macros (src/storekey-derive/src/impls).  An enum is its number   *)
(* of variants len and the attributes on it; a value of it is the index    *)
(* idx of its variant and the values of the variant's fields.              *)
(***************************************************************************)
u8_MAX == 255
u16_MAX == 65535

\* extract_formats(&input.attrs): the arguments of the storekey attributes
RECURSIVE extract_formats(_)
extract_formats(attrs) ==
    IF attrs = <<>> THEN <<>>
    ELSE IF Head(attrs)[1] = "storekey"
         THEN <<Head(attrs)[2]>> \o extract_formats(Tail(attrs))
    ELSE extract_formats(Tail(attrs))

\* the formats the macros generate an impl for: encode, decode and
\* borrow_decode.  "FormatGen" is the impl generic over the format.
encode_impls(attrs) == extract_formats(attrs)

decode_impls(attrs) ==
    IF extract_formats(attrs) = <<>> THEN <<"FormatGen">> ELSE extract_formats(attrs)

borrow_decode_impls(attrs) ==
    IF extract_formats(attrs) = <<>> THEN <<"FormatGen">> ELSE extract_formats(attrs)

\* the impl in impls that serves the format F, if any
HasImpl(impls, F) == \E n \in 1..Len(impls) : impls[n] \in {F, "FormatGen"}

\* decode_type in encode.rs: the type of the discriminant
encode_decode_type(len) ==
    IF len > u8_MAX - 2
    THEN (IF len > u16_MAX THEN "u32" ELSE "u16")
    ELSE "u8"

\* faulty variant of the literal: the index is not shifted
encode_idx_unshifted(len, idx) ==
    IF len > u8_MAX - 2
    THEN (IF len > u16_MAX THEN idx ELSE idx % 65536)
    ELSE idx % 256

\* idx in encode.rs: the literal of variant idx
encode_idx(len, idx) ==
    IF len > u8_MAX - 2
    THEN (IF len > u16_MAX THEN idx ELSE idx % 65536)
    ELSE (idx % 256) + 2

\* decode_type in decode.rs
decode_decode_type(len) ==
    IF len > u8_MAX - 2
    THEN (IF len > u16_MAX THEN "u32" ELSE "u16")
    ELSE "u8"

\* faulty variant of the literal in decode.rs: shifted by 1
decode_idx_shifted_by_one(len, idx) ==
    IF len > u8_MAX - 2
    THEN (IF len > u16_MAX THEN idx ELSE idx % 65536)
    ELSE (idx % 256) + 1

\* idx in decode.rs
decode_idx(len, idx) ==
    IF len > u8_MAX - 2
    THEN (IF len > u16_MAX THEN idx ELSE idx % 65536)
    ELSE (idx % 256) + 2

\* decode_type and idx in borrow_decode.rs
borrow_decode_decode_type(len) ==
    IF len > u8_MAX - 2
    THEN (IF len > u16_MAX THEN "u32" ELSE "u16")
    ELSE "u8"

borrow_decode_idx(len, idx) ==
    IF len > u8_MAX - 2
    THEN (IF len > u16_MAX THEN idx ELSE idx % 65536)
    ELSE (idx % 256) + 2

\* the types of the fields of variant idx of the enums the model derives
\* for: a unit variant, a variant of one field, a variant of two
VariantFields(idx) ==
    CASE idx % 3 = 0 -> <<>>
      [] idx % 3 = 1 -> <<"u8">>
      [] idx % 3 = 2 -> <<"String", "u8">>

\* the derived Encode::encode of an enum of len variants on the value v
derived_encode(len, v, wr) ==
    EncodeFields(VariantFields(v.idx), v.fields,
        Encode(encode_decode_type(len), encode_idx(len, v.idx), wr))

\* the type and the literal of a variant in the macro that generates the
\* decoder for readers of this kind
macro_decode_type(kind, len) ==
    IF kind = "Reader" THEN decode_decode_type(len)
    ELSE borrow_decode_decode_type(len)

macro_idx(kind, len, idx) ==
    IF kind = "Reader" THEN decode_idx(len, idx) ELSE borrow_decode_idx(len, idx)

\* the arm of the derived match that variant selects: the index of the
\* variant whose literal it is, or -1 for the arm `_`.  Only the literals of
\* the variants variant - 2 and variant can be equal to variant.
MatchArm(kind, len, variant) ==
    LET arms == {idx \in {variant - 2, variant} :
                    idx >= 0 /\ idx < len /\ macro_idx(kind, len, idx) = variant}
    IN  IF arms = {} THEN -1 ELSE CHOOSE idx \in arms : TRUE

\* the body both macros generate: read the discriminant, match on it,
\* decode the fields of the variant
DerivedMatch(len, rd) ==
    LET variant == Decode(macro_decode_type(rd.kind, len), rd)
    IN  IF ~variant.ok THEN variant
        ELSE LET idx == MatchArm(rd.kind, len, variant.val)
             IN  IF idx < 0 THEN Err("InvalidFormat", variant.rd)
                 ELSE LET fields == DecodeFields(VariantFields(idx), variant.rd, <<>>)
                      IN  IF ~fields.ok THEN fields
                          ELSE Ok([idx |-> idx, fields |-> fields.val], fields.rd)

\* the derived Decode::decode (on a Reader) and BorrowDecode::borrow_decode
\* (on a BorrowReader)
derived_decode(len, rd) == DerivedMatch(len, rd)

(***************************************************************************)
(* Spec: a client of the untyped API.  It makes one logged Writer call     *)
(* (after mark_terminator or not), possibly one more call that puts one    *)
(* further byte behind it, then opens a Reader or a BorrowReader over the  *)
(* bytes written and calls the reader's methods in any order.              *)
(***************************************************************************)
NoReader == [kind |-> "none", inner |-> <<>>, expect_escaped |-> FALSE]
NoWCall ==
    [op |-> "none", arg |-> <<>>, flag |-> FALSE, start |-> 0, end |-> 0,
     after |-> FALSE]
NoRCall == [op |-> "none", n |-> 0, pre |-> NoReader, res |-> Ok(<<>>, NoReader)]
NoDecode == [op |-> "none", src |-> <<>>, res |-> Ok(<<>>, NoReader)]

NoTwin == [pre |-> NoReader, res |-> Ok(<<>>, NoReader)]

ValueIdle ==
    /\ ty = "none" /\ a = <<>> /\ b = <<>> /\ w2 = Writer_new /\ dec = NoDecode
    /\ twin = NoTwin

Init ==
    /\ pc = "write"
    /\ w = Writer_new
    /\ lastw = NoWCall
    /\ reader = NoReader
    /\ last = NoRCall
    /\ ValueIdle

\* the record of a Writer call that took the writer from wr to wr2
WCall(op, arg, wr, wr2) ==
    [op |-> op, arg |-> arg, flag |-> wr.escape_zero,
     start |-> Len(wr.inner), end |-> Len(wr2.inner),
     after |-> wr2.escape_zero]

\* the first Writer call is logged; one more call, of a terminator or of a
\* one-byte array, may follow it
CanWrite == pc = "write" /\ Len(w.inner) = lastw.end
First == lastw.op = "none"

Logged(op, arg, wr2) ==
    /\ w' = wr2
    /\ lastw' = IF lastw.op = "none" THEN WCall(op, arg, w, wr2) ELSE lastw
    /\ UNCHANGED <<pc, reader, last, ty, a, b, w2, dec, twin>>

MarkTerminator ==
    /\ CanWrite
    /\ w' = mark_terminator(w)
    /\ UNCHANGED <<pc, lastw, reader, last, ty, a, b, w2, dec, twin>>

WriteSlice ==
    /\ CanWrite /\ First
    /\ \E slice \in Slices : Logged("write_slice", slice, write_slice(w, slice))

WriteArray ==
    /\ CanWrite
    /\ \E array \in {x \in Arrays : First \/ Len(x) = 1} : Logged("write_array", array, write_array(w, array))

WriteTerminator ==
    /\ CanWrite
    /\ Logged("write_terminator", <<>>, write_terminator(w))

\* Reader::new(&bytes[..]) or BorrowReader::new(&bytes) over the bytes written
Open ==
    /\ pc = "write"
    /\ pc' = "read"
    /\ \E kind \in {"Reader", "BorrowReader"} :
          reader' = IF kind = "Reader" THEN Reader_new(w.inner)
                    ELSE BorrowReader_new(w.inner)
    /\ UNCHANGED <<w, lastw, last, ty, a, b, w2, dec, twin>>

\* the record of a reader call with result res
RCall(op, n, res) == [op |-> op, n |-> n, pre |-> reader, res |-> res]

Called(op, n, res) ==
    /\ reader' = res.rd
    /\ last' = RCall(op, n, res)
    /\ UNCHANGED <<pc, w, lastw, ty, a, b, w2, dec, twin>>

ExpectEscaped ==
    /\ pc = "read"
    /\ Called("expect_escaped", 0, Ok(<<>>, expect_escaped(reader)))

ReadTerminal ==
    /\ pc = "read"
    /\ Called("read_terminal", 0,
              IF reader.kind = "Reader" THEN Reader_read_terminal(reader)
              ELSE BorrowReader_read_terminal(reader))

ReadArray ==
    /\ pc = "read"
    /\ \E SIZE \in 1..MaxLen :
          Called("read_array", SIZE,
                 IF reader.kind = "Reader" THEN Reader_read_array(reader, SIZE)
                 ELSE BorrowReader_read_array(reader, SIZE))

ReadVec ==
    /\ pc = "read"
    /\ Called("read_vec", 0,
              IF reader.kind = "Reader" THEN Reader_read_vec(reader)
              ELSE BorrowReader_read_vec(reader))

ReadCow ==
    /\ pc = "read"
    /\ reader.kind = "BorrowReader"
    /\ Called("read_cow", 0, read_cow(reader))

Next ==
    \/ MarkTerminator
    \/ WriteSlice
    \/ WriteArray
    \/ WriteTerminator
    \/ Open
    \/ ExpectEscaped
    \/ ReadTerminal
    \/ ReadArray
    \/ ReadVec
    \/ ReadCow

Spec == Init /\ [][Next]_vars

(***************************************************************************)
(* SpecValue: a client of the typed API.  It picks a type and a value a,   *)
(* encodes a with a fresh Writer (after mark_terminator or not), and then  *)
(* either encodes a second value b of the type the same way to compare the *)
(* two outputs, or writes one more byte and reads the value back through a *)
(* Reader or a BorrowReader, or hands a prefix of the bytes to decode or   *)
(* decode_borrow.                                                          *)
(***************************************************************************)
\* the types of the values whose encodings are compared
OrdTypes ==
    {t \in Types : Kind(t) \in {"int", "float", "str", "vec", "map", "tag"}}
    \cup StrTupleTypes

InitValue ==
    /\ pc = "start"
    /\ w = Writer_new
    /\ lastw = NoWCall
    /\ reader = NoReader
    /\ last = NoRCall
    /\ ty \in Types
    /\ a \in Vals(ty)
    /\ b = a
    /\ w2 = Writer_new
    /\ dec = NoDecode
    /\ twin = NoTwin

\* w.mark_terminator() before the value is encoded: the value is encoded as
\* an element of a sequence
Mark ==
    /\ pc = "start"
    /\ ~w.escape_zero
    /\ w' = mark_terminator(w)
    /\ UNCHANGED <<pc, lastw, reader, last, ty, a, b, w2, dec, twin>>

\* a.encode(&mut w)
EncodeValue ==
    /\ pc = "start"
    /\ pc' = "encoded"
    /\ w' = Encode(ty, a, w)
    /\ lastw' = WCall("encode", <<>>, w, w')
    /\ UNCHANGED <<reader, last, ty, a, b, w2, dec, twin>>

\* b.encode(&mut w2), w2 a second Writer that starts as w started
EncodeOther ==
    /\ pc = "encoded"
    /\ Len(w.inner) = lastw.end
    /\ ty \in OrdTypes
    /\ pc' = "compared"
    /\ \E v \in Vals(ty) :
          /\ b' = v
          /\ w2' = Encode(ty, v, [Writer_new EXCEPT !.escape_zero = lastw.flag])
    /\ UNCHANGED <<w, lastw, reader, last, ty, a, dec, twin>>

\* one byte written behind the value: w.write_u8(x)
Trail ==
    /\ pc = "encoded"
    /\ Len(w.inner) = lastw.end
    /\ \E x \in ByteVals : w' = write_int(w, "u8", x)
    /\ UNCHANGED <<pc, lastw, reader, last, ty, a, b, w2, dec, twin>>

\* Reader::new(&bytes[..]) or BorrowReader::new(&bytes) over the bytes written
OpenReader ==
    /\ pc = "encoded"
    /\ ty \notin TagTypes
    /\ pc' = "read"
    /\ \E kind \in {"Reader", "BorrowReader"} :
          reader' = IF kind = "Reader" THEN Reader_new(w.inner)
                    ELSE BorrowReader_new(w.inner)
    /\ UNCHANGED <<w, lastw, last, ty, a, b, w2, dec, twin>>

\* r.read_u8() .. r.read_f64(), r.read_string()
ReadPrimitive ==
    /\ pc = "read"
    /\ Kind(ty) \in {"int", "float", "str"}
    /\ pc' = "decoded"
    /\ LET res == ReadValue(ty, reader)
       IN  reader' = res.rd /\ last' = RCall("read_value", 0, res)
    /\ UNCHANGED <<w, lastw, ty, a, b, w2, dec, twin>>

\* T::decode(&mut r) / T::borrow_decode(&mut r) of a composite type
DecodeValue ==
    /\ pc = "read"
    /\ Kind(ty) \in {"vec", "map", "tuple"}
    /\ pc' = "decoded"
    /\ LET res == Decode(ty, reader)
       IN  reader' = res.rd /\ last' = RCall("decode", 0, res)
    /\ UNCHANGED <<w, lastw, ty, a, b, w2, dec, twin>>

\* the methods that read a run of bytes up to its terminator; read_cow and
\* read_escaped_slice are methods of BorrowReader alone
ByteCalls(kind) ==
    IF kind = "Reader" THEN {"read_vec"}
    ELSE {"read_vec", "read_cow", "read_escaped_slice"}

ByteCall(call, rd) ==
    CASE call = "read_vec" -> read_vec(rd)
      [] call = "read_cow" -> read_cow(rd)
      [] call = "read_escaped_slice" -> read_escaped_slice(rd)

\* the reader's own byte-string methods called on the bytes a Vec<u8> wrote
\* element by element
ReadBytes ==
    /\ pc = "read"
    /\ ty = "Vec<u8>"
    /\ pc' = "decoded"
    /\ \E call \in ByteCalls(reader.kind) :
          LET res == ByteCall(call, reader)
          IN  reader' = res.rd /\ last' = RCall(call, 0, res)
    /\ UNCHANGED <<w, lastw, ty, a, b, w2, dec, twin>>

\* the inputs handed to decode: the bytes written, or a prefix of them
Inputs(bytes) == {Take(bytes, n) : n \in 0..Len(bytes)}

\* storekey::decode(src) or storekey::decode_borrow(src)
TopDecode ==
    /\ pc = "encoded"
    /\ ty \notin TagTypes
    /\ pc' = "done"
    /\ \E src \in Inputs(w.inner), op \in {"decode", "decode_borrow"} :
          dec' = [op |-> op, src |-> src,
                  res |-> IF op = "decode" THEN decode(ty, src) ELSE decode_borrow(ty, src)]
    /\ UNCHANGED <<w, lastw, reader, last, ty, a, b, w2, twin>>

NextValue ==
    \/ Mark
    \/ EncodeValue
    \/ EncodeOther
    \/ Trail
    \/ OpenReader
    \/ ExpectEscaped
    \/ ReadPrimitive
    \/ DecodeValue
    \/ ReadBytes
    \/ TopDecode

SpecValue == InitValue /\ [][NextValue]_vars

(***************************************************************************)
(* SpecPair: a Reader and a BorrowReader are opened over the same input,   *)
(* any byte string, and the same method is called on both, again and       *)
(* again.  pc is "pair" until a call fails on either reader, "failed"      *)
(* right after that call, "after" from the next call on.                   *)
(***************************************************************************)
\* the bytes of the inputs: the terminator, the escape prefix, a plain byte
\* and the two bytes of U+00E9, each of them invalid UTF-8 without the other
InputBytes == {0, 1, 2, 195, 169}

\* the methods both readers have, with the array size or integer type
PairCalls ==
    {<<"read_terminal", 0>>, <<"read_vec", 0>>, <<"read_string", 0>>,
     <<"read_u8", 0>>, <<"read_i16", 0>>}
    \cup {<<"read_array", n>> : n \in 1..MaxLen}

\* the method call on a reader of either kind
PairCall(call, rd) ==
    CASE call[1] = "read_terminal" -> read_terminal(rd)
      [] call[1] = "read_vec" -> read_vec(rd)
      [] call[1] = "read_string" -> read_string(rd)
      [] call[1] = "read_u8" -> read_int(rd, "u8")
      [] call[1] = "read_i16" -> read_int(rd, "i16")
      [] call[1] = "read_array" -> read_array(rd, call[2])

InitPair ==
    /\ pc = "pair"
    /\ w = Writer_new
    /\ lastw = NoWCall
    /\ last = NoRCall
    /\ ty = "none" /\ b = <<>> /\ w2 = Writer_new /\ dec = NoDecode
    /\ a \in SeqsUpTo(InputBytes, MaxLen + 1)
    /\ reader = Reader_new(a)
    /\ twin = [pre |-> BorrowReader_new(a), res |-> Ok(<<>>, BorrowReader_new(a))]

\* the same method called on both readers
PairStep ==
    /\ pc \in {"pair", "failed", "after"}
    /\ \E call \in PairCalls :
          LET res == PairCall(call, reader)
              bres == PairCall(call, twin.res.rd)
          IN  /\ reader' = res.rd
              /\ last' = RCall(call[1], call[2], res)
              /\ twin' = [pre |-> twin.res.rd, res |-> bres]
              /\ pc' = IF pc /= "pair" THEN "after"
                       ELSE IF res.ok /\ bres.ok THEN "pair"
                       ELSE "failed"
    /\ UNCHANGED <<w, lastw, ty, a, b, w2, dec>>

\* number of bytes of the input a that the reader rd has consumed
Consumed(rd) == Len(a) - Len(rd.inner)

\* the methods only BorrowReader has
BorrowCalls == {"read_cow", "read_str_cow", "read_escaped_slice", "read_escaped_str"}

BorrowCall(call, rd) ==
    CASE call = "read_cow" -> read_cow(rd)
      [] call = "read_str_cow" -> read_str_cow(rd)
      [] call = "read_escaped_slice" -> read_escaped_slice(rd)
      [] call = "read_escaped_str" -> read_escaped_str(rd)

\* a method of BorrowReader alone: the pair ends here
BorrowStep ==
    /\ pc = "pair"
    /\ pc' = "borrowed"
    /\ \E call \in BorrowCalls :
          LET bres == BorrowCall(call, twin.res.rd)
          IN  /\ twin' = [pre |-> twin.res.rd, res |-> bres]
              /\ last' = [op |-> call, n |-> 0, pre |-> twin.res.rd, res |-> bres]
    /\ UNCHANGED <<w, lastw, reader, ty, a, b, w2, dec>>

\* the escaped view just read is encoded again (Encode for EscapedSlice and
\* EscapedStr) into a fresh writer, with or without a terminator marked
WriteEscaped ==
    /\ pc = "borrowed"
    /\ last.op \in {"read_escaped_slice", "read_escaped_str"}
    /\ last.res.ok
    /\ pc' = "rewritten"
    /\ \E wr \in {Writer_new, mark_terminator(Writer_new)} :
          /\ w' = write_escaped_slice(wr, last.res.val)
          /\ lastw' = WCall("write_escaped_slice", last.res.val, wr, w')
    /\ UNCHANGED <<reader, last, ty, a, b, w2, dec, twin>>

\* a second view of the same kind is read from the start of another input
\* src, to be compared with the view just read from the start of a; src
\* also serves as the plain slice or str the view is compared with
OtherView ==
    /\ pc = "borrowed"
    /\ last.op \in {"read_escaped_slice", "read_escaped_str"}
    /\ last.res.ok
    /\ Consumed(last.pre) = 0
    /\ pc' = "viewed"
    /\ \E src \in SeqsUpTo(InputBytes, MaxLen) :
          dec' = [op |-> last.op, src |-> src,
                  res |-> BorrowCall(last.op, BorrowReader_new(src))]
    /\ UNCHANGED <<w, lastw, reader, last, ty, a, b, w2, twin>>

NextPair ==
    \/ PairStep
    \/ BorrowStep
    \/ WriteEscaped
    \/ OtherView

SpecPair == InitPair /\ [][NextPair]_vars

(***************************************************************************)
(* SpecDerive: Encode, Decode and BorrowDecode are derived for an enum of  *)
(* ty.len variants carrying the attributes ty.attrs.  A client encodes the *)
(* value a with the derived impl of a format (at the top level or behind   *)
(* mark_terminator), then either encodes the same value with the impl      *)
(* derived after one more variant was appended to the enum, or decodes the *)
(* bytes with the derived decoder of either reader.  Or it hands the       *)
(* derived decoder bytes of its own.                                       *)
(***************************************************************************)
\* the numbers of variants of the enums derived for: around the two
\* thresholds of the discriminant type
VariantCounts == {1, 2, 3, 252, 253, 254, 255, 65535, 65536}

\* the variants of an enum of len variants whose values are drawn
VariantsOf(len) ==
    {idx \in {0, 1, 2, 251, 252, 253, 254, 65534, 65535} : idx < len}

\* the attribute lists on the enum: <<path, argument>> each
AttrLists ==
    { <<>>,
      << <<"doc", "">> >>,
      << <<"storekey", "()">> >>,
      << <<"storekey", "()">>, <<"storekey", "OtherFormat">> >> }

\* the formats a client asks for: the default one and another
Formats == {"()", "OtherFormat"}

\* the values of the fields of a variant
RECURSIVE FieldVals(_)
FieldVals(ts) ==
    IF ts = <<>> THEN {<<>>}
    ELSE {<<x>> \o r : x \in (IF Head(ts) = "u8" THEN {0, 1, 2} ELSE ElemVals("String")),
                       r \in FieldVals(Tail(ts))}

\* the bytes handed to the derived decoders
DerivedInputs ==
    SeqsUpTo({0, 1, 2, 3, 255}, MaxLen)
    \cup {<<0, x, y, z>> : x \in {0, 1}, y \in {0, 255}, z \in {0, 255}}

InitDerive ==
    /\ pc = "derive"
    /\ w = Writer_new
    /\ lastw = NoWCall
    /\ reader = NoReader
    /\ last = NoRCall
    /\ ty \in {[len |-> len, attrs |-> attrs] : len \in VariantCounts, attrs \in AttrLists}
    /\ \E idx \in VariantsOf(ty.len) :
          \E fields \in FieldVals(VariantFields(idx)) :
             a = [idx |-> idx, fields |-> fields]
    /\ b = a
    /\ w2 = Writer_new
    /\ dec = NoDecode
    /\ twin = NoTwin

\* w.mark_terminator() before the value is encoded
DeriveMark ==
    /\ pc = "derive"
    /\ ~w.escape_zero
    /\ w' = mark_terminator(w)
    /\ UNCHANGED <<pc, lastw, reader, last, ty, a, b, w2, dec, twin>>

\* Encode::<F>::encode(&a, &mut w), for a format F the derive generated an
\* impl for
DeriveEncode ==
    /\ pc = "derive"
    /\ pc' = "encoded"
    /\ \E F \in Formats :
          /\ HasImpl(encode_impls(ty.attrs), F)
          /\ w' = derived_encode(ty.len, a, w)
          /\ lastw' = WCall("encode", F, w, w')
    /\ UNCHANGED <<reader, last, ty, a, b, w2, dec, twin>>

\* one more variant is appended to the enum, the derive runs again, and the
\* same value is encoded with the new impl into a writer that starts as w
\* started
AppendVariant ==
    /\ pc = "encoded"
    /\ pc' = "appended"
    /\ w2' = derived_encode(ty.len + 1, a, [Writer_new EXCEPT !.escape_zero = lastw.flag])
    /\ UNCHANGED <<w, lastw, reader, last, ty, a, b, dec, twin>>

\* a reader of either kind over the bytes written; behind a marked
\* terminator the reader expects an escape, as after read_terminal
DeriveOpen ==
    /\ pc = "encoded"
    /\ HasImpl(decode_impls(ty.attrs), lastw.arg)
    /\ HasImpl(borrow_decode_impls(ty.attrs), lastw.arg)
    /\ pc' = "read"
    /\ \E rd \in {Reader_new(w.inner), BorrowReader_new(w.inner)} :
          reader' = IF lastw.flag THEN expect_escaped(rd) ELSE rd
    /\ UNCHANGED <<w, lastw, last, ty, a, b, w2, dec, twin>>

\* a reader of either kind over bytes that are not the encoder's; which
\* bytes does not depend on the value a or on the attributes
DeriveInput ==
    /\ pc = "derive"
    /\ w = Writer_new /\ a.idx = 0 /\ ty.attrs = <<>>
    /\ pc' = "read"
    /\ \E src \in DerivedInputs :
          /\ dec' = [op |-> "input", src |-> src, res |-> Ok(<<>>, NoReader)]
          /\ \E rd \in {Reader_new(src), BorrowReader_new(src)} : reader' = rd
    /\ UNCHANGED <<w, lastw, last, ty, a, b, w2, twin>>

\* Decode::decode(&mut r) / BorrowDecode::borrow_decode(&mut r)
DeriveDecode ==
    /\ pc = "read"
    /\ pc' = "decoded"
    /\ LET res == derived_decode(ty.len, reader)
       IN  reader' = res.rd /\ last' = RCall("decode", 0, res)
    /\ UNCHANGED <<w, lastw, ty, a, b, w2, dec, twin>>

NextDerive ==
    \/ DeriveMark
    \/ DeriveEncode
    \/ AppendVariant
    \/ DeriveOpen
    \/ DeriveInput
    \/ DeriveDecode

SpecDerive == InitDerive /\ [][NextDerive]_vars

(***************************************************************************)
(* The serde-based Deserializer (src/src/decode.rs, src/src/decode/read.rs)*)
(* over a SliceReader.  A sequence or a map is its elements, ended by the  *)
(* byte 0x01 or by the end of the input; the io::Error of a failed         *)
(* read_exact is the error "Io", its kind being UnexpectedEof.             *)
(***************************************************************************)
SliceReader_new(inner) ==
    [kind |-> "SliceReader", inner |-> inner, expect_escaped |-> FALSE]

\* memchr::memchr(delimiter, s): the 0-based index of the first delimiter
\* at or after index i, or -1
RECURSIVE memchr(_, _, _)
memchr(delimiter, s, i) ==
    IF i >= Len(s) THEN -1
    ELSE IF s[i + 1] = delimiter THEN i
    ELSE memchr(delimiter, s, i + 1)

\* SliceReader::read_reference_until
read_reference_until(rd, delimiter) ==
    LET end == memchr(delimiter, rd.inner, 0)
    IN  IF end < 0 THEN Err("Io", rd)
        ELSE Ok(Take(rd.inner, end), [rd EXCEPT !.inner = Drop(rd.inner, end + 1)])

\* Deserializer::move_on
move_on(rd) ==
    IF rd.inner /= <<>> /\ rd.inner[1] = 1
    THEN Ok(TRUE, [rd EXCEPT !.inner = Tail(rd.inner)])
    ELSE Ok(FALSE, rd)

deserialize_u8(rd) ==
    LET u == ReadExact(rd, 1)
    IN  IF ~u.ok THEN u ELSE Ok(u.val[1], u.rd)

deserialize_u16(rd) ==
    LET u == ReadExact(rd, 2)
    IN  IF ~u.ok THEN u ELSE Ok(from_be_bytes_unsigned(u.val), u.rd)

deserialize_str(rd) ==
    LET reference == read_reference_until(rd, 0)
    IN  IF ~reference.ok THEN Err("UnexpectedEof", reference.rd)
        ELSE IF ~from_utf8_ok(reference.val) THEN Err("InvalidUtf8", reference.rd)
        ELSE reference

\* the types deserialized through deserialize_seq and deserialize_map
SerdeSeqTypes == {"Vec<u8>", "Vec<u16>", "Vec<String>"}
SerdeMapTypes == {"BTreeMap<u8, u16>", "BTreeMap<u16, u8>", "BTreeMap<String, u8>"}

\* the type of the elements of a sequence, of the keys and of the values of
\* a map
SerdeElem(t) ==
    CASE t = "Vec<u8>" -> "u8"
      [] t = "Vec<u16>" -> "u16"
      [] t = "Vec<String>" -> "String"

SerdeKey(t) ==
    CASE t = "BTreeMap<u8, u16>" -> "u8"
      [] t = "BTreeMap<u16, u8>" -> "u16"
      [] t = "BTreeMap<String, u8>" -> "String"

SerdeVal(t) == IF t = "BTreeMap<u8, u16>" THEN "u16" ELSE "u8"

\* DeserializeSeed::deserialize(seed, &mut *self.deserializer)
Deserialize(t, rd) ==
    CASE t = "u8" -> deserialize_u8(rd)
      [] t = "u16" -> deserialize_u16(rd)
      [] t = "String" -> deserialize_str(rd)

\* Option<T::Value>
None == <<"None">>
Some(v) == <<"Some", v>>

\* SeqAccess::next_element_seed of deserialize_seq
next_element_seed(t, rd) ==
    LET end == move_on(rd)
    IN  IF end.val THEN Ok(None, end.rd)
        ELSE LET v == Deserialize(t, end.rd)
             IN  IF v.ok THEN Ok(Some(v.val), v.rd)
                 ELSE IF v.err = "Io" THEN Ok(None, v.rd)
                 ELSE v

\* MapAccess::next_key_seed of deserialize_map
next_key_seed(t, rd) ==
    LET end == move_on(rd)
    IN  IF end.val THEN Ok(None, end.rd)
        ELSE LET v == Deserialize(t, end.rd)
             IN  IF v.ok THEN Ok(Some(v.val), v.rd)
                 ELSE IF v.err = "Io" THEN Ok(None, v.rd)
                 ELSE v

\* MapAccess::next_value_seed of deserialize_map
next_value_seed(t, rd) == Deserialize(t, rd)

(***************************************************************************)
(* SpecSerde: deserialize(bytes) of a Vec or a BTreeMap, for any bytes.    *)
(* The visitor of the collection calls next_element (next_key, then        *)
(* next_value) until it gets None or an error; b holds the elements        *)
(* collected so far, dec the result deserialize returns.  pc is "seq",     *)
(* "key" or "value" while the visitor runs and "done" after it returned.   *)
(***************************************************************************)
\* the bytes of the inputs: a plain byte, the end marker, the string
\* terminator and a letter
SerdeBytes == {0, 1, 2, 97}

InitSerde ==
    /\ ty \in SerdeSeqTypes \cup SerdeMapTypes
    /\ pc = IF ty \in SerdeSeqTypes THEN "seq" ELSE "key"
    /\ a \in SeqsUpTo(SerdeBytes, MaxLen + 1)
    /\ reader = SliceReader_new(a)
    /\ b = <<>>
    /\ w = Writer_new
    /\ lastw = NoWCall
    /\ last = NoRCall
    /\ w2 = Writer_new
    /\ dec = NoDecode
    /\ twin = NoTwin

\* what deserialize returns when the visitor stops on the result res of the
\* access it called last
Returned(op, res, collected) ==
    [op |-> op, src |-> a,
     res |-> IF res.ok THEN Ok(collected, res.rd) ELSE Err(res.err, res.rd)]

\* Vec's visitor: while let Some(value) = seq.next_element()? { push }
VisitSeq ==
    /\ pc = "seq"
    /\ LET res == next_element_seed(SerdeElem(ty), reader)
       IN  /\ reader' = res.rd
           /\ last' = RCall("next_element", 0, res)
           /\ IF res.ok /\ res.val /= None
              THEN /\ b' = Append(b, res.val[2])
                   /\ UNCHANGED <<pc, dec>>
              ELSE /\ pc' = "done"
                   /\ dec' = Returned("deserialize_seq", res, b)
                   /\ UNCHANGED b
    /\ UNCHANGED <<w, lastw, ty, a, w2, twin>>

\* BTreeMap's visitor: while let Some((key, value)) = map.next_entry()?;
\* this is the call of next_key
VisitKey ==
    /\ pc = "key"
    /\ LET res == next_key_seed(SerdeKey(ty), reader)
       IN  /\ reader' = res.rd
           /\ last' = RCall("next_key", 0, res)
           /\ IF res.ok /\ res.val /= None
              THEN /\ pc' = "value"
                   /\ UNCHANGED dec
              ELSE /\ pc' = "done"
                   /\ dec' = Returned("deserialize_map", res, b)
    /\ UNCHANGED <<w, lastw, ty, a, b, w2, twin>>

\* the call of next_value for the key just read, and the insert
VisitValue ==
    /\ pc = "value"
    /\ LET res == next_value_seed(SerdeVal(ty), reader)
       IN  /\ reader' = res.rd
           /\ last' = RCall("next_value", 0, res)
           /\ IF res.ok
              THEN /\ b' = MapInsert(SerdeKey(ty), b, last.res.val[2], res.val)
                   /\ pc' = "key"
                   /\ UNCHANGED dec
              ELSE /\ pc' = "done"
                   /\ dec' = Returned("deserialize_map", res, b)
                   /\ UNCHANGED b
    /\ UNCHANGED <<w, lastw, ty, a, w2, twin>>

NextSerde ==
    \/ VisitSeq
    \/ VisitKey
    \/ VisitValue

SpecSerde == InitSerde /\ [][NextSerde]_vars

(***************************************************************************)
(* Properties of the untyped API (checked under Spec).                     *)
(***************************************************************************)
\* number of bytes of the Writer's output the reader rd has consumed
Pos(rd) == Len(w.inner) - Len(rd.inner)

\* the bytes a read_vec / read_cow call returned
BytesOf(call) ==
    IF call.op = "read_cow" THEN call.res.val.bytes ELSE call.res.val

\* C1: byte-string round trip.  Whenever Reader::read_vec,
\* BorrowReader::read_vec or BorrowReader::read_cow is called at the position
\* where a write_slice(s) call started writing (whatever escape_zero was
\* before write_slice and whatever expect_escaped is before the read), the
\* read succeeds, returns exactly s, and stops exactly where write_slice
\* stopped writing, so that bytes written afterwards stay unread.
C1_SliceRoundTrip ==
    (/\ last.op \in {"read_vec", "read_cow"}
     /\ lastw.op = "write_slice"
     /\ Pos(last.pre) = lastw.start)
    => (/\ last.res.ok
        /\ BytesOf(last) = lastw.arg
        /\ Pos(last.res.rd) = lastw.end)

\* a read_cow with expect_escaped set has read back <<0, 1>>, written by
\* write_slice with escape_zero set, and left the following 0 byte unread
C1_Witness ==
    /\ last.op = "read_cow"
    /\ lastw.op = "write_slice" /\ lastw.arg = <<0, 1>> /\ lastw.flag
    /\ Pos(last.pre) = lastw.start /\ last.pre.expect_escaped
    /\ last.res.ok /\ last.res.val.bytes = <<0, 1>>
    /\ last.res.rd.inner = <<0>>

\* the input holds a 0x00
HasZero(s) == \E i \in 1..Len(s) : s[i] = 0
\* a 0x01 occurs in the input before the first 0x00
OneBeforeZero(s) ==
    \E i \in 1..Len(s) : s[i] = 1 /\ \A j \in 1..(i - 1) : s[j] # 0
\* the input up to, not including, the first 0x00
BeforeZero(s) ==
    Take(s, (CHOOSE i \in 1..Len(s) : s[i] = 0 /\ \A j \in 1..(i - 1) : s[j] # 0) - 1)

C2_SliceOrder ==
    (pc = "compared" /\ ty = "String")
    => CmpBytes(w.inner, w2.inner) = CmpBytes(a, b)

\* "a\x00" < "a\x01", written as <<97, 1, 0, 0>> and <<97, 1, 1, 0>>
C2_Witness ==
    /\ pc = "compared" /\ ty = "String"
    /\ a = <<97, 0>> /\ b = <<97, 1>>
    /\ w.inner = <<97, 1, 0, 0>> /\ w2.inner = <<97, 1, 1, 0>>
    /\ CmpBytes(w.inner, w2.inner) = "Less"

\* the N bytes that are all x
AllBytes(x, N) == [i \in 1..N |-> x]

\* C3: order preservation for integers.  For every integer type and all a,
\* b of it, a <= b iff the bytes written for a are lexicographically <= the
\* bytes written for b; an unsigned value is written big-endian, a signed
\* value as the big-endian bytes of its offset from the type's MIN (the
\* sign bit flipped); MIN is written as all 0x00, MAX as all 0xFF.
C3_IntOrder ==
    (pc = "compared" /\ Kind(ty) = "int")
    => LET N == Width(ty)
       IN  /\ (a <= b) <=> (CmpBytes(w.inner, w2.inner) \in {"Less", "Equal"})
           /\ (~lastw.flag /\ ~Signed(ty)) => w.inner = to_be_bytes(a, N)
           /\ (~lastw.flag /\ Signed(ty) /\ N < 4)
                  => from_be_bytes_unsigned(w.inner) = a - IntMin(N)
           /\ (~lastw.flag /\ Signed(ty) /\ a = IntMin(N)) => w.inner = AllBytes(0, N)
           /\ (~lastw.flag /\ Signed(ty) /\ a = IntMax(N)) => w.inner = AllBytes(255, N)

\* -1i32 sorts below 0i32: <<127, 255, 255, 255>> below <<128, 0, 0, 0>>
C3_Witness ==
    /\ pc = "compared" /\ ty = "i32" /\ ~lastw.flag
    /\ a = -1 /\ b = 0
    /\ w.inner = <<127, 255, 255, 255>> /\ w2.inner = <<128, 0, 0, 0>>
    /\ CmpBytes(w.inner, w2.inner) = "Less"

\* the output up to the boundary behind the first k elements (entries) of
\* the sequence (map) v of type t, written by a Writer whose flag is flag
ElementBoundary(t, v, flag, k) ==
    LET wr == [Writer_new EXCEPT !.escape_zero = flag]
    IN  IF Kind(t) = "vec" THEN EncodeElems(Elem(t), Take(v, k), wr).inner
        ELSE EncodeEntries(t, Take(v, k), wr).inner

\* C4: sequence boundaries are decodable for every element type.  In the
\* encoding of a Vec<T> or a map, the byte at every element boundary is 0x00
\* if and only if the sequence ends there, also when the elements or keys
\* are empty strings or empty sequences; and decoding the encoding returns
\* the value and consumes exactly its bytes.
C4_SequenceBoundaries ==
    /\ (pc = "encoded" /\ Kind(ty) \in {"vec", "map"} /\ Len(w.inner) = lastw.end)
       => \A k \in 0..Len(a) :
             (w.inner[Len(ElementBoundary(ty, a, lastw.flag, k)) + 1] = 0) <=> (k = Len(a))
    /\ (last.op = "decode" /\ Kind(ty) \in {"vec", "map"})
       => (/\ last.res.ok
           /\ last.res.val = a
           /\ Pos(last.res.rd) = lastw.end)

\* C5: record round trip across a sequence boundary.  A tuple whose first
\* field is a Vec<u8> and whose second field is a fixed-width integer
\* decodes, on Reader and on BorrowReader, to the value encoded, whatever
\* the first encoded byte of the integer is, and the decoder stops where
\* the encoder stopped.
C5_RecordRoundTrip ==
    (last.op = "decode" /\ Kind(ty) = "tuple" /\ ~lastw.flag /\ ~last.pre.expect_escaped)
    => (/\ last.res.ok
        /\ last.res.val = a
        /\ Pos(last.res.rd) = lastw.end)

C7_VecOrder ==
    (pc = "compared" /\ Kind(ty) = "vec" /\ Kind(Elem(ty)) = "int")
    => CmpBytes(w.inner, w2.inner) = CmpVal(ty, a, b)

\* [255] sorts above [0, 1]
C7_Witness ==
    /\ pc = "compared" /\ ty = "Vec<u8>" /\ ~lastw.flag
    /\ a = <<255>> /\ b = <<0, 1>>
    /\ w.inner = <<255, 0>> /\ w2.inner = <<1, 0, 1, 1, 0>>
    /\ CmpBytes(w.inner, w2.inner) = "Greater"

\* C8: fixed-width round trip under matching flags.  For every integer
\* and every float bit pattern, and for both values f of the escape flag, a
\* Reader or BorrowReader whose expect_escaped is f, reading what a Writer
\* whose escape flag was f wrote, returns the value, stops where the Writer
\* stopped, and both flags are false afterwards.
C8_FixedWidthRoundTrip ==
    (/\ last.op = "read_value"
     /\ Kind(ty) \in {"int", "float"}
     /\ last.pre.expect_escaped = lastw.flag)
    => (/\ last.res.ok
        /\ last.res.val = a
        /\ Pos(last.res.rd) = lastw.end
        /\ ~last.res.rd.expect_escaped
        /\ ~w.escape_zero)

\* i32::MIN written at a marked position, as <<1, 0, 0, 0, 0>>, with another
\* byte behind it
C8_Witness ==
    /\ last.op = "read_value" /\ ty = "i32" /\ a = IntMin(4)
    /\ lastw.flag /\ last.pre.expect_escaped
    /\ last.pre.kind = "BorrowReader"
    /\ Take(w.inner, 5) = <<1, 0, 0, 0, 0>> /\ Len(w.inner) = 6
    /\ last.res.ok /\ last.res.val = a /\ Len(last.res.rd.inner) = 1

\* the root decoder's result on the input of the last decode call
RootResult ==
    Decode(ty, IF dec.op = "decode" THEN Reader_new(dec.src) ELSE BorrowReader_new(dec.src))

\* C10: full-consumption check.  decode and decode_borrow return
\* Err(BytesRemaining) whenever the root decoder succeeds and leaves input
\* unread, return the decoded value only when the input is fully consumed,
\* and return the root decoder's own error when the root decoder fails.
C10_BytesRemaining ==
    dec.op /= "none"
    => /\ (RootResult.ok /\ RootResult.rd.inner /= <<>>)
             => (~dec.res.ok /\ dec.res.err = "BytesRemaining")
       /\ (RootResult.ok /\ RootResult.rd.inner = <<>>)
             => (dec.res.ok /\ dec.res.val = RootResult.val)
       /\ dec.res.ok => (RootResult.ok /\ RootResult.rd.inner = <<>>)
       /\ ~RootResult.ok
             => (~dec.res.ok /\ dec.res.err = RootResult.err /\ dec.res.err /= "BytesRemaining")

\* a u16 with one more byte behind it: the root decoder succeeds, one byte
\* is left
C10_Witness ==
    /\ dec.op = "decode_borrow" /\ ty = "u16" /\ Len(dec.src) = 3
    /\ RootResult.ok /\ Len(RootResult.rd.inner) = 1
    /\ ~dec.res.ok /\ dec.res.err = "BytesRemaining"

\* C11: float ordering is strictly monotone.  For every pair of non-NaN
\* bit patterns a, b of one width with a < b in IEEE-754 order, the bytes
\* written for a are lexicographically less than the bytes written for b;
\* every NaN with the sign bit clear is written above +inf, every NaN with
\* the sign bit set below -inf.
C11_FloatMonotone ==
    (pc = "compared" /\ Kind(ty) = "float")
    => /\ partial_cmp(a, b) = "Less" => CmpBytes(w.inner, w2.inner) = "Less"
       /\ (is_nan(a) /\ ~SignBit(a) /\ b = Infinity(a))
             => CmpBytes(w.inner, w2.inner) = "Greater"
       /\ (is_nan(a) /\ SignBit(a) /\ b = NegInfinity(a))
             => CmpBytes(w.inner, w2.inner) = "Less"

\* -10.0f32 below -1.0f32: <<62, 223, 255, 255>> below <<64, 127, 255, 255>>
C11_Witness ==
    /\ pc = "compared" /\ ty = "f32" /\ ~lastw.flag
    /\ a = <<193, 32, 0, 0>> /\ b = <<191, 128, 0, 0>>
    /\ partial_cmp(a, b) = "Less"
    /\ w.inner = <<62, 223, 255, 255>> /\ w2.inner = <<64, 127, 255, 255>>

\* C12 as claimed: for every non-NaN pair of one width, a.partial_cmp(b) is
\* the comparison of the encoded byte strings.
C12_FloatPartialCmp ==
    (pc = "compared" /\ Kind(ty) = "float" /\ ~is_nan(a) /\ ~is_nan(b))
    => CmpBytes(w.inner, w2.inner) = partial_cmp(a, b)

\* C12 amended: for every non-NaN pair of one width the comparison of the
\* encoded byte strings is a.total_cmp(b); it is a.partial_cmp(b) unless a
\* and b are the two zeros of opposite sign, where -0.0 is written below
\* +0.0 although the two compare equal.
C12_FloatTotalCmp ==
    (pc = "compared" /\ Kind(ty) = "float" /\ ~is_nan(a) /\ ~is_nan(b))
    => /\ CmpBytes(w.inner, w2.inner) = total_cmp(a, b)
       /\ ~(IsZero(a) /\ IsZero(b) /\ a /= b)
             => CmpBytes(w.inner, w2.inner) = partial_cmp(a, b)
       /\ (IsZero(a) /\ IsZero(b) /\ SignBit(a) /\ ~SignBit(b))
             => CmpBytes(w.inner, w2.inner) = "Less"

\* -0.0f64 against +0.0f64
C12_Witness ==
    /\ pc = "compared" /\ ty = "f64" /\ ~lastw.flag
    /\ a = <<128, 0, 0, 0, 0, 0, 0, 0>> /\ b = <<0, 0, 0, 0, 0, 0, 0, 0>>
    /\ partial_cmp(a, b) = "Equal" /\ total_cmp(a, b) = "Less"
    /\ CmpBytes(w.inner, w2.inner) = "Less"

(***************************************************************************)
(* Properties of the two readers run in step (checked under SpecPair).     *)
(***************************************************************************)
\* the two readers agree on the last call: both succeeded with equal
\* results, the same number of bytes consumed and the same flag, or both
\* failed
PairAgrees ==
    /\ last.res.ok = twin.res.ok
    /\ last.res.ok
          => /\ last.res.val = twin.res.val
             /\ Consumed(last.res.rd) = Consumed(twin.res.rd)
             /\ last.res.rd.expect_escaped = twin.res.rd.expect_escaped

\* C13 as claimed: for every input and every sequence of calls, at every
\* step both readers succeed with equal results, bytes consumed and flag,
\* or both fail.
C13_SameContract ==
    (pc \in {"pair", "failed", "after"} /\ last.op /= "none") => PairAgrees

\* C13 amended: the same, for every step up to and including the first
\* call that fails; at that call both fail.
C13_SameContractUntilFailure ==
    (pc \in {"pair", "failed"} /\ last.op /= "none") => PairAgrees

\* after read_terminal returned false on <<1, 2, 0>>, both readers have read
\* the escaped byte 2 as a u8 and stand behind it with the flag cleared
C13_Witness ==
    /\ pc = "pair" /\ a = <<1, 2, 0>>
    /\ last.op = "read_u8"
    /\ last.pre.expect_escaped /\ twin.pre.expect_escaped
    /\ last.res.ok /\ twin.res.ok
    /\ last.res.val = 2 /\ twin.res.val = 2
    /\ Consumed(last.res.rd) = 2 /\ Consumed(twin.res.rd) = 2
    /\ ~last.res.rd.expect_escaped /\ ~twin.res.rd.expect_escaped

\* the bytes a fixed-width read of SIZE bytes needs from rd: one more when an
\* escape prefix is expected and there
NeededBytes(rd, SIZE) ==
    IF rd.expect_escaped /\ rd.inner /= <<>> /\ rd.inner[1] = 1 THEN SIZE + 1 ELSE SIZE

\* the input of rd ends before the bytes the call needs are available
EndsEarly(op, n, rd) ==
    CASE op = "read_terminal" -> rd.inner = <<>>
      [] op = "read_u8" -> Len(rd.inner) < NeededBytes(rd, 1)
      [] op = "read_i16" -> Len(rd.inner) < NeededBytes(rd, 2)
      [] op = "read_array" -> Len(rd.inner) < NeededBytes(rd, n)
      [] OTHER -> ScanEscaped(rd.inner, 0) < 0

UnexpectedEnd(res) == ~res.ok /\ res.err = "UnexpectedEnd"

\* C14: every read operation of Reader and of BorrowReader returns
\* UnexpectedEnd, no other error and no value, when the input ends before
\* the bytes it needs (the N bytes of a fixed-width value, the terminator of
\* a variable-length value, the byte behind an escape prefix).
C14_UnexpectedEnd ==
    LET called == pc \in {"pair", "failed", "after", "borrowed"} /\ last.op /= "none"
    IN  /\ (called /\ EndsEarly(last.op, last.n, last.pre)) => UnexpectedEnd(last.res)
        /\ (called /\ EndsEarly(last.op, last.n, twin.pre)) => UnexpectedEnd(twin.res)

\* the same for BorrowReader alone and for the calls of Reader that do not
\* go through read_exact
C14_UnexpectedEndElsewhere ==
    LET called == pc \in {"pair", "failed", "after", "borrowed"} /\ last.op /= "none"
    IN  /\ (/\ called
             /\ last.op \in {"read_terminal", "read_vec", "read_string"} \cup BorrowCalls
             /\ EndsEarly(last.op, last.n, last.pre))
            => UnexpectedEnd(last.res)
        /\ (called /\ EndsEarly(last.op, last.n, twin.pre)) => UnexpectedEnd(twin.res)

\* the call read a terminated byte sequence that is not valid UTF-8: the
\* input was complete, its unescaped bytes are no string
InvalidString(rd) ==
    LET i == ScanEscaped(rd.inner, 0)
    IN  i >= 0 /\ ~from_utf8_ok(EscapedIter(Take(rd.inner, i)))

Utf8Error(res) == ~res.ok /\ res.err = "Utf8"

\* C15: Reader::read_string, BorrowReader::read_string, read_str_cow and
\* read_escaped_str each return DecodeError::Utf8 when the terminated byte
\* sequence they read is not valid UTF-8.
C15_InvalidUtf8 ==
    LET called == pc \in {"pair", "failed", "after", "borrowed"}
    IN  /\ (called /\ last.op = "read_string" /\ InvalidString(last.pre))
            => Utf8Error(last.res)
        /\ (/\ called
             /\ last.op \in {"read_string", "read_str_cow", "read_escaped_str"}
             /\ InvalidString(twin.pre))
            => Utf8Error(twin.res)

\* the same without read_escaped_str
C15_InvalidUtf8Elsewhere ==
    LET called == pc \in {"pair", "failed", "after", "borrowed"}
    IN  /\ (called /\ last.op = "read_string" /\ InvalidString(last.pre))
            => Utf8Error(last.res)
        /\ (/\ called
             /\ last.op \in {"read_string", "read_str_cow"}
             /\ InvalidString(twin.pre))
            => Utf8Error(twin.res)

\* the bytes of the input between the positions of two readers
Range(from, to) == SubSeq(a, Consumed(from) + 1, Consumed(to))

\* C16: read_escaped_slice returns the raw input from the current position
\* through the first unescaped 0x00 inclusive, without unescaping, and leaves
\* the reader where read_vec would; write_escaped_slice emits those bytes
\* unchanged, so reading a view and writing it again reproduces the consumed
\* range byte for byte.
C16_EscapedPassThrough ==
    (pc \in {"borrowed", "rewritten"} /\ last.op = "read_escaped_slice")
    => LET vec == BorrowReader_read_vec(last.pre)
       IN  /\ last.res.ok = vec.ok
           /\ last.res.ok
                 => /\ last.res.rd = vec.rd
                    /\ last.res.val = Range(last.pre, last.res.rd)
                    /\ last.res.val[Len(last.res.val)] = 0
                    /\ EscapedIter(Take(last.res.val, Len(last.res.val) - 1)) = vec.val
                    /\ pc = "rewritten"
                          => /\ w.inner = Range(last.pre, last.res.rd)
                             /\ ~w.escape_zero

\* the view <<1, 0, 0>> (an escaped 0x00 and the terminator) read and written
\* again with a terminator marked
C16_Witness ==
    /\ pc = "rewritten" /\ last.op = "read_escaped_slice"
    /\ a = <<1, 0, 0>> /\ Consumed(last.pre) = 0
    /\ last.res.ok /\ last.res.val = <<1, 0, 0>>
    /\ lastw.flag /\ w.inner = <<1, 0, 0>>

\* the unescaped contents of the view returned by the last call: the bytes
\* read_vec returns on the same input
Contents(rd) == BorrowReader_read_vec(rd).val

\* a view equals a plain byte slice, or a plain str, iff its unescaped
\* contents equal that slice or str
ViewEqualsPlain ==
    pc = "viewed"
    => /\ last.op = "read_escaped_slice"
             => (EscapedSlice_eq_bytes(last.res.val, dec.src)
                    <=> Contents(last.pre) = dec.src)
       /\ (last.op = "read_escaped_str" /\ from_utf8_ok(dec.src))
             => (EscapedStr_eq_str(last.res.val, dec.src)
                    <=> Contents(last.pre) = dec.src)

\* C17: two escaped views returned by read_escaped_slice / read_escaped_str
\* are equal iff their unescaped contents are equal, and a view equals a
\* plain byte slice or str iff its unescaped contents equal that slice or
\* str.
C17_ViewEquality ==
    /\ (pc = "viewed" /\ dec.res.ok)
          => (EscapedSlice_eq(last.res.val, dec.res.val)
                 <=> Contents(last.pre) = Contents(BorrowReader_new(dec.src)))
    /\ ViewEqualsPlain

\* the view is the encoding write_slice produces for its contents
Canonical(raw, contents) == raw = write_slice(Writer_new, contents).inner

\* the same for two views that are encodings written by write_slice
C17_ViewEqualityCanonical ==
    /\ (/\ pc = "viewed" /\ dec.res.ok
         /\ Canonical(last.res.val, Contents(last.pre))
         /\ Canonical(dec.res.val, Contents(BorrowReader_new(dec.src))))
          => (EscapedSlice_eq(last.res.val, dec.res.val)
                 <=> Contents(last.pre) = Contents(BorrowReader_new(dec.src)))
    /\ ViewEqualsPlain

\* a view has been returned by the last call of BorrowReader
ViewRead(op) ==
    /\ pc \in {"borrowed", "rewritten", "viewed"}
    /\ last.op = op /\ last.res.ok

\* C18: on every input on which read_escaped_slice succeeds, the bytes
\* EscapedSlice::iter yields are the bytes read_vec returns for the same
\* input, on either reader; the chars EscapedStr::chars yields are the chars
\* of the string read_string returns.
C18_ViewIterators ==
    /\ ViewRead("read_escaped_slice")
          => LET vec == BorrowReader_read_vec(last.pre)
                 rvec == Reader_read_vec([last.pre EXCEPT !.kind = "Reader"])
             IN  /\ vec.ok /\ rvec.ok
                 /\ EscapedSlice_iter(last.res.val) = vec.val
                 /\ EscapedSlice_iter(last.res.val) = rvec.val
    /\ ViewRead("read_escaped_str")
          => LET str == read_string(last.pre)
             IN  /\ str.ok
                 /\ EscapedStr_chars(last.res.val) = chars(str.val)

\* the view <<1, 1, 0>>, an escaped 0x01 and the terminator, yields the one
\* byte 0x01
C18_Witness ==
    /\ ViewRead("read_escaped_slice")
    /\ last.res.val = <<1, 1, 0>>
    /\ EscapedSlice_iter(last.res.val) = <<1>>

(***************************************************************************)
(* Discriminant bytes and ordered maps (checked under SpecValue).          *)
(***************************************************************************)
\* the bytes a.encode wrote
Written == SubSeq(w.inner, lastw.start + 1, lastw.end)

\* the bytes of an unsigned payload of type t, with no escape prefix
Plain(t, x) == to_be_bytes(x, Width(t))

\* the bytes the claim gives for the value v of type t
TaggedBytes(t, v) ==
    CASE t = "bool" -> IF v THEN <<3>> ELSE <<2>>
      [] v[1] \in {"None", "Unbounded"} -> <<2>>
      [] v[1] = "Some" -> <<3>> \o Plain("u8", v[2])
      [] v[1] = "Ok" -> <<2>> \o Plain("u8", v[2])
      [] v[1] = "Err" -> <<3>> \o Plain("u16", v[2])
      [] v[1] = "Included" -> <<3>> \o Plain("u8", v[2])
      [] v[1] = "Excluded" -> <<4>> \o Plain("u8", v[2])

\* x comes before y in the order the claim gives: false < true,
\* None < Some(x), Ok(x) < Err(e), Unbounded < Included(v) < Excluded(v)
TagBefore(t, x, y) ==
    CASE t = "bool" -> ~x /\ y
      [] t = "Option<u8>" -> x[1] = "None" /\ y[1] = "Some"
      [] t = "Result<u8, u16>" -> x[1] = "Ok" /\ y[1] = "Err"
      [] t = "Bound<u8>" ->
           \/ x[1] = "Unbounded" /\ y[1] \in {"Included", "Excluded"}
           \/ x[1] = "Included" /\ y[1] = "Excluded" /\ x[2] = y[2]

\* C19: bool, Option, Result and Bound are written as the discriminant byte
\* 0x02, 0x03 or 0x04 and the payload, if any, behind it; the discriminant
\* has no escape prefix whether or not a terminator was marked; and the
\* bytes order false < true, None < Some(x), Ok(x) < Err(e),
\* Unbounded < Included(v) < Excluded(v).
C19_SafeRangeTags ==
    /\ (pc \in {"encoded", "compared"} /\ ty \in TagTypes)
          => /\ Written = TaggedBytes(ty, a)
             /\ ~w.escape_zero
    /\ (pc = "compared" /\ ty \in TagTypes)
          => /\ w2.inner = TaggedBytes(ty, b)
             /\ TagBefore(ty, a, b) => CmpBytes(w.inner, w2.inner) = "Less"

\* Included(0) and Excluded(0), both written after mark_terminator, are
\* <<3, 0>> and <<4, 0>>
C19_Witness ==
    /\ pc = "compared" /\ ty = "Bound<u8>" /\ lastw.flag
    /\ a = <<"Included", 0>> /\ b = <<"Excluded", 0>>
    /\ w.inner = <<3, 0>> /\ w2.inner = <<4, 0>>

\* C20: for two BTreeMaps with the same fixed-width key and value types the
\* comparison of the encodings equals the comparison of the maps, which is
\* lexicographic over their (key, value) pairs in ascending key order.
C20_MapOrder ==
    (/\ pc = "compared" /\ Kind(ty) = "map"
     /\ Kind(KeyOf(ty)) = "int" /\ Kind(ValOf(ty)) = "int")
    => CmpBytes(w.inner, w2.inner) = CmpVal(ty, a, b)

\* {0: 0} against {0: 0, 1: 1}: the pairs of the first are a prefix of the
\* pairs of the second
C20_Witness ==
    /\ pc = "compared" /\ ty = "BTreeMap<u8, u8>" /\ ~lastw.flag
    /\ a = <<<<0, 0>>>> /\ b = <<<<0, 0>>, <<1, 1>>>>
    /\ CmpVal(ty, a, b) = "Less"
    /\ CmpBytes(w.inner, w2.inner) = "Less"

(***************************************************************************)
(* Properties of the derived impls (checked under SpecDerive).             *)
(***************************************************************************)
\* the bytes of the fields of a, written behind a discriminant
FieldBytes == EncodeFields(VariantFields(a.idx), a.fields, Writer_new).inner

\* the escape prefix write_array puts before bytes at a marked position
Prefix(bytes) == IF lastw.flag /\ bytes[1] <= 1 THEN <<1>> ELSE <<>>

\* the three macros choose the same discriminant type for the enum and the
\* same literal for each of its variants
SameDiscriminants ==
    /\ decode_decode_type(ty.len) = encode_decode_type(ty.len)
    /\ borrow_decode_decode_type(ty.len) = encode_decode_type(ty.len)
    /\ \A idx \in VariantsOf(ty.len) :
          /\ decode_idx(ty.len, idx) = encode_idx(ty.len, idx)
          /\ borrow_decode_idx(ty.len, idx) = encode_idx(ty.len, idx)

\* C21: the derived encoder writes variant i of an enum of k <= 253
\* variants as the one byte i + 2, which is in 0x02..=0xFF, differs from the
\* byte of every other variant and gets no escape prefix behind
\* mark_terminator; for 253 < k <= 65535 it writes the index in 2 bytes,
\* big-endian and not shifted, for larger k in 4 bytes; and the three
\* macros choose the same width and value.
C21_Discriminants ==
    (pc = "encoded")
    => /\ ty.len <= 253
             => /\ w.inner = <<a.idx + 2>> \o FieldBytes
                /\ a.idx + 2 >= 2 /\ a.idx + 2 <= 255
                /\ \A idx \in VariantsOf(ty.len) :
                      idx /= a.idx => encode_idx(ty.len, idx) /= w.inner[1]
       /\ (ty.len > 253 /\ ty.len <= 65535)
             => w.inner = Prefix(to_be_bytes(a.idx, 2)) \o to_be_bytes(a.idx, 2) \o FieldBytes
       /\ ty.len > 65535
             => w.inner = Prefix(to_be_bytes(a.idx, 4)) \o to_be_bytes(a.idx, 4) \o FieldBytes
       /\ SameDiscriminants

\* the last variant of an enum of 253 variants, a unit variant, written
\* behind mark_terminator: the one byte 254
C21_Witness ==
    /\ pc = "encoded" /\ ty.len = 253 /\ a.idx = 252 /\ lastw.flag
    /\ w.inner = <<254>>

\* C22: the bytes the derived encoder writes for variant i of an enum of k
\* variants are those it writes for variant i once one more variant is
\* appended, for every k >= 1 and every i < k.
C22_AppendCompatible ==
    (pc = "appended") => w2.inner = w.inner

\* the same for the enums that keep their discriminant type when the
\* variant is appended
C22_AppendCompatibleSameType ==
    (pc = "appended" /\ encode_decode_type(ty.len + 1) = encode_decode_type(ty.len))
    => w2.inner = w.inner

\* the discriminant the bytes src start with, read in the type of the enum
\* by a reader that expects no escape, or -1 when they are too few
DiscriminantOf(len, src) ==
    LET n == Width(encode_decode_type(len))
    IN  IF Len(src) < n THEN -1 ELSE from_be_bytes_unsigned(Take(src, n))

InvalidFormat(res) == ~res.ok /\ res.err = "InvalidFormat"

\* C23: the derived decoders return InvalidFormat for every discriminant
\* not assigned to a variant (for k <= 253: 0x00, 0x01 and every byte
\* >= k + 2); for an assigned one they decode the fields of that variant,
\* and every value the derived encoder wrote is decoded back to itself.
C23_UnknownDiscriminant ==
    /\ (pc = "decoded" /\ dec.op = "input" /\ DiscriminantOf(ty.len, dec.src) >= 0)
          => LET d == DiscriminantOf(ty.len, dec.src)
                 assigned == IF ty.len <= 253 THEN d >= 2 /\ d < ty.len + 2
                             ELSE d < ty.len
                 idx == IF ty.len <= 253 THEN d - 2 ELSE d
             IN  /\ ~assigned => InvalidFormat(last.res)
                 /\ assigned
                      => /\ ~InvalidFormat(last.res)
                         /\ last.res.ok
                              => /\ last.res.val.idx = idx
                                 /\ Len(last.res.val.fields) = Len(VariantFields(idx))
    /\ (pc = "decoded" /\ dec.op = "none")
          => /\ last.res.ok
             /\ last.res.val = a
             /\ last.res.rd.inner = <<>>

\* the byte 0xFF handed to the decoder of an enum of 2 variants: the bytes
\* 0x02 and 0x03 are assigned, 0xFF is not
C23_Witness ==
    /\ pc = "decoded" /\ dec.op = "input" /\ ty.len = 2
    /\ dec.src = <<255>>
    /\ InvalidFormat(last.res)

\* C24: each of the three macros generates one impl per format attribute,
\* and one impl, never none, when the type has no format attribute.
C24_DefaultFormat ==
    LET n == Len(extract_formats(ty.attrs))
        generated(impls) == Len(impls) = (IF n = 0 THEN 1 ELSE n)
    IN  (pc \in {"derive", "encoded", "appended", "read", "decoded"})
        => /\ generated(encode_impls(ty.attrs))
           /\ generated(decode_impls(ty.attrs))
           /\ generated(borrow_decode_impls(ty.attrs))

\* the same for derive(Decode) and derive(BorrowDecode) alone
C24_DefaultFormatDecode ==
    LET n == Len(extract_formats(ty.attrs))
        generated(impls) == Len(impls) = (IF n = 0 THEN 1 ELSE n)
    IN  (pc \in {"derive", "encoded", "appended", "read", "decoded"})
        => /\ generated(decode_impls(ty.attrs))
           /\ generated(borrow_decode_impls(ty.attrs))

\* the bytes the last logged Writer call appended
WrittenByCall == SubSeq(w.inner, lastw.start + 1, lastw.end)

\* C25: a non-empty write_array call appends 0x01 and then the array when
\* the terminator mark was pending and the array's first byte is 0x00 or
\* 0x01, and the array alone otherwise; no later byte of the array is
\* escaped, and the mark is not pending after the call.
C25_WriteArrayEscape ==
    (lastw.op = "write_array") =>
        /\ WrittenByCall =
              (IF lastw.flag /\ lastw.arg[1] <= 1 THEN <<1>> ELSE <<>>)
                  \o lastw.arg
        /\ ~lastw.after

\* a marked writer was handed [0x00, 0x00]: one escape byte, both zeros kept
C25_Witness ==
    /\ lastw.op = "write_array"
    /\ lastw.flag
    /\ lastw.arg = <<0, 0>>
    /\ WrittenByCall = <<1, 0, 0>>
    /\ ~lastw.after

\* what read_terminal has to do on a reader in the state pre, whatever its
\* kind, given the result res it returned
TerminalContract(pre, res) ==
    IF pre.inner = <<>> THEN ~res.ok /\ res.err = "UnexpectedEnd"
    ELSE IF pre.inner[1] = 0
    THEN /\ res.ok /\ res.val = TRUE
         /\ res.rd.inner = Tail(pre.inner)
         /\ res.rd.expect_escaped
    ELSE /\ res.ok /\ res.val = FALSE
         /\ res.rd.inner = pre.inner

\* C26: read_terminal, on a Reader and on a BorrowReader, consumes exactly
\* the next byte, returns true and sets expect_escaped when that byte is
\* 0x00; returns false without consuming anything when it is any other
\* byte; fails with UnexpectedEnd when no input is left.
C26_ReadTerminal ==
    (pc \in {"pair", "failed", "after"} /\ last.op = "read_terminal") =>
        /\ TerminalContract(last.pre, last.res)
        /\ TerminalContract(twin.pre, twin.res)

\* both readers stood before the terminator of <<2, 0, 2>>, without the
\* flag, and have consumed it
C26_Witness ==
    /\ a = <<2, 0, 2>>
    /\ last.op = "read_terminal"
    /\ last.pre.inner = <<0, 2>> /\ twin.pre.inner = <<0, 2>>
    /\ ~last.pre.expect_escaped /\ ~twin.pre.expect_escaped
    /\ last.res.val = TRUE /\ twin.res.val = TRUE
    /\ last.res.rd.inner = <<2>> /\ twin.res.rd.inner = <<2>>
    /\ last.res.rd.expect_escaped /\ twin.res.rd.expect_escaped

\* C27: escape_zero is false when the encode of a value on a writer without
\* a pending mark returns: every mark_terminator of the encoding has been
\* consumed by the write that followed it, and none is left pending behind
\* the bytes written.
C27_WriterFlag ==
    (pc = "encoded" /\ lastw.op = "encode" /\ ~lastw.flag) => ~lastw.after

\* the mark is left pending only behind a sequence whose last element is an
\* empty sequence: that element wrote its terminator through
\* write_terminator, which does not clear the mark
C27_WriterFlagExceptEmptyLast ==
    (pc = "encoded" /\ lastw.op = "encode" /\ ~lastw.flag /\ lastw.after) =>
        /\ ty = "Vec<Vec<u8>>"
        /\ a /= <<>>
        /\ a[Len(a)] = <<>>

\* C28: for two tuples of strings and fixed-width integers, written on
\* writers in the same state, the byte order of the concatenated field
\* encodings is the order of the tuples field by field; no encoding of a
\* string is a proper prefix of the encoding of another string.
C28_TupleOrder ==
    (pc = "compared" /\ ty \in StrTupleTypes) =>
        CmpBytes(Written, w2.inner) = CmpVal(ty, a, b)

\* a string and the same string with a NUL appended, followed by integers in
\* the opposite order: the tuple with the shorter string comes first
C28_Witness ==
    /\ pc = "compared" /\ ty = "(String, u8)"
    /\ a = <<(<<97>>), 255>> /\ b = <<(<<97, 0>>), 0>>
    /\ Written = <<97, 0, 255>>
    /\ w2.inner = <<97, 1, 0, 0, 0>>
    /\ CmpVal(ty, a, b) = "Less"

\* the bytes a byte-string read returned, a view unescaped by its iterator
BytesRead(call) ==
    CASE call.op = "read_cow" -> call.res.val.bytes
      [] call.op = "read_escaped_slice" -> EscapedSlice_iter(call.res.val)
      [] OTHER -> call.res.val

\* C29: a Vec<u8> encoded element by element (mark_terminator and write_u8
\* for each byte, then write_terminator) writes the bytes write_slice
\* writes for the same byte string; read_vec, read_cow and
\* read_escaped_slice at the start of those bytes return the byte string
\* and stop behind its terminator.
C29_TwoFramings ==
    /\ (pc \in {"encoded", "read", "decoded"} /\ ty = "Vec<u8>")
          => Written = write_slice(Writer_new, a).inner
    /\ (pc = "decoded" /\ ty = "Vec<u8>"
            /\ last.op \in {"read_vec", "read_cow", "read_escaped_slice"})
          => /\ last.res.ok
             /\ BytesRead(last) = a
             /\ Pos(last.res.rd) = lastw.end

\* the Vec [0, 1] was written element by element as <<1, 0, 1, 1, 0>> and
\* read back through read_escaped_slice as a view of all five bytes
C29_Witness ==
    /\ pc = "decoded" /\ ty = "Vec<u8>" /\ a = <<0, 1>>
    /\ Written = <<1, 0, 1, 1, 0>>
    /\ last.op = "read_escaped_slice"
    /\ last.res.ok /\ last.res.val = <<1, 0, 1, 1, 0>>
    /\ BytesRead(last) = <<0, 1>>

\* how the access called last found the input: at the end marker 0x01, at
\* its end, or neither (an element starts there)
AtEndMarker ==
    last.op \in {"next_element", "next_key"}
    /\ last.pre.inner /= <<>> /\ last.pre.inner[1] = 1

AtElementBoundary ==
    last.op \in {"next_element", "next_key"} /\ last.pre.inner = <<>>

\* C30: deserialize_seq and deserialize_map return Ok only when the
\* collection was ended by its end marker 0x01, which is consumed, or by the
\* input being exhausted where an element would start; when the input ends
\* after an element has begun, they return the error.
C30_FailuresPropagate ==
    (pc = "done" /\ dec.res.ok) =>
        \/ AtEndMarker /\ Len(dec.res.rd.inner) = Len(last.pre.inner) - 1
        \/ AtElementBoundary

\* the failure that does not propagate is that of read_exact for a
\* fixed-width element, or key, with fewer bytes left than its width; the
\* failure of a string without terminator and of a missing or incomplete
\* value of a map entry do propagate
C30_FailuresPropagateExceptReadExact ==
    (pc = "done" /\ dec.res.ok /\ ~AtEndMarker /\ ~AtElementBoundary) =>
        /\ last.op \in {"next_element", "next_key"}
        /\ ty \in {"Vec<u16>", "BTreeMap<u16, u8>"}
        /\ Len(last.pre.inner) = 1
        /\ dec.res.val = b

=============================================================================
